---- MODULE Spec2Model ----
(***************************************************************************)
(* The race simulation of src/main.py as a state machine: the frame loop   *)
(* of main(), Car.update, pack composition, recycling, AI lane             *)
(* arbitration, drafting and collision resolution.                         *)
(*                                                                         *)
(* The program computes with floats.  The model computes with fixed-point  *)
(* integers and keeps the program's formulas:                              *)
(*   time      in 1/CS second        (delta = clock.tick(FPS)/1000.0)      *)
(*   speed     in 1/SU unit/second   (car.speed, sim_speed)                *)
(*   distance  in 1/DU unit, DU = SU * CS, so speed * delta is exact       *)
(*   mph       in 1/MU mph           (player_speed_mph, target_mph)        *)
(*   lane      in 1/LU lane          (player_lane_value)                   *)
(* A quotient that is not exact is rounded down (\div).  A driver is its   *)
(* car_num.  The cosmetic fields of a car (sprite, size, spin_angle,       *)
(* spin_speed) are not part of the state.                                  *)
(***************************************************************************)
EXTENDS Integers, Sequences, FiniteSets, TLC

\* ------------------------------------------------------------ fixed point
CS == 100
SU == 100
DU == SU * CS
MU == 10
LU == 1000

\* ------------------------------------------------------ program constants
LANE_CHANGE_COOLDOWN == 18            \* 0.18 s
ROLLING_DURATION == 500               \* 5.0 s
SPEED_SCALE_X10 == 38                 \* 3.8 simulation units per MPH
ROLLING_START_MIN_MPH == 110
ROLLING_START_MAX_MPH == 200
CONTROLLED_BASE_MPH == 200
BRAKE_MPH == 120
TURN_PENALTY_MAX == 34
QUICK_RACE_ROW_GAP == 16
QUICK_RACE_PACK_ROWS == 22
QUICK_RACE_PLAYER_ROW == 18
QUICK_RACE_PLAYER_LANE == 0
QUICK_RACE_ROW_JITTER_X100 == 45      \* 0.45
DEFAULT_FIELD_SIZE == 43
COLLISION_GAP == 14
CRASH_REL_MPH == 24
LANE_SAFETY_DISTANCE == 120
\* a variant of CRASH_REL_UNITS that leaves the mph figure unscaled
CRASH_REL_UNSCALED == CRASH_REL_MPH * SU
CRASH_REL_UNITS == (CRASH_REL_MPH * SPEED_SCALE_X10 * SU) \div 10
EXIT_DISTANCE == 400                  \* Car.update: return self.distance < -400
CRASH_TIME == 120                     \* crash_timer = 1.2
AI_LANE_COOLDOWN == 60                \* lane_change_timer = 0.6
LAP_DISTANCE == 4200
AGGRESSION_MIN == 85                  \* random.uniform(0.85, 1.2), in 1/100
AGGRESSION_MAX == 120
RECYCLE_MIN == 520                    \* random.uniform(520, 1500)
RECYCLE_MAX == 1500

\* ------------------------------------------------------------- the bounds
MaxFrames == 2       \* frames of the main loop a behaviour runs
PackRows == 1        \* pack_rows of the modelled presets (22 and 6 in the code)
FieldSize == 3       \* field_size of the quick-race preset (43 in the code)
SnapshotCars == 3    \* AI cars of a field of a race under way
MaxRaces == 1        \* calls of start_quick_race in a behaviour
MaxDistance == 5000  \* the largest car.distance the model tells apart

Min(a, b) == IF a < b THEN a ELSE b
Max(a, b) == IF a > b THEN a ELSE b
Abs(a) == IF a < 0 THEN -a ELSE a
Min2(S) == CHOOSE m \in S : \A n \in S : m <= n
Max2(S) == CHOOSE m \in S : \A n \in S : n <= m

\* a variant of move_toward that does not stop at the target
move_toward_past(value, target, step) ==
    IF value < target THEN value + step
    ELSE IF value > target THEN value - step
    ELSE value

move_toward(value, target, step) ==
    IF value < target THEN Min(value + step, target)
    ELSE IF value > target THEN Max(value - step, target)
    ELSE value

clamp(value, minimum, maximum) == Max(minimum, Min(value, maximum))

\* int(round(x)) of Python for x >= 0 given in 1/LU: halves go to the even side
round_lane(v) ==
    LET q == v \div LU
        r == v % LU
    IN  IF 2 * r < LU THEN q
        ELSE IF 2 * r > LU THEN q + 1
        ELSE IF q % 2 = 0 THEN q ELSE q + 1

\* ------------------------------------------------------------------- Car
\* Car.__init__: a fresh RUNNING car at rest; aggression is the uniform draw.
Car(id, lane_index, distance, aggression, driver) ==
    [id |-> id, lane_index |-> lane_index, distance |-> distance, speed |-> 0,
     aggression |-> aggression, lane_change_timer |-> 0, state |-> "RUNNING",
     crash_timer |-> 0, driver |-> driver]

\* a variant of exit_signal with the threshold ten units further back
exit_signal_late(distance) == distance < -((EXIT_DISTANCE + 10) * DU)

\* the value Car.update returns
exit_signal(distance) == distance < -(EXIT_DISTANCE * DU)

\* car.distance is an unbounded float; the model holds a car that runs away
\* ahead at MaxDistance, beyond every spawn distance and every gap the
\* program compares
in_range(distance) == Min(distance, MaxDistance * DU)

\* variants of crash_next_state: the switch put off while the timer is
\* exactly zero, and a car that runs again once its timer is out
crash_next_state_late(ct) == IF ct < 0 THEN "DISABLED" ELSE "CRASHING"
crash_next_state_repaired(ct) == IF ct <= 0 THEN "RUNNING" ELSE "CRASHING"

\* the state a CRASHING car leaves Car.update with; ct is the decremented timer
crash_next_state(ct) == IF ct <= 0 THEN "DISABLED" ELSE "CRASHING"

\* a variant of rolling_floor that never holds a car
rolling_floor_none(distance, control_locked) == distance

\* if control_locked: self.distance = max(self.distance, -48)
rolling_floor(distance, control_locked) ==
    IF control_locked THEN Max(distance, -(48 * DU)) ELSE distance

\* Car.update(delta, sim_player_speed, control_locked): the car after the call
\* and the returned exit flag
Car_update(c, delta, sim_player_speed, control_locked) ==
    LET lct == Max(0, c.lane_change_timer - delta) IN
    IF c.state = "CRASHING" THEN
        LET ct == c.crash_timer - delta
            sp == move_toward(c.speed, sim_player_speed - 140 * SU, 420 * delta)
            d  == in_range(c.distance - (sp - sim_player_speed) * delta)
        IN  [car |-> [c EXCEPT !.lane_change_timer = lct, !.crash_timer = ct,
                               !.speed = sp, !.distance = d,
                               !.state = crash_next_state(ct)],
             exit |-> exit_signal(d)]
    ELSE IF c.state = "DISABLED" THEN
        LET sp == move_toward(c.speed, sim_player_speed - 220 * SU, 560 * delta)
            d  == in_range(c.distance - (sp - sim_player_speed) * delta)
        IN  [car |-> [c EXCEPT !.lane_change_timer = lct, !.speed = sp, !.distance = d],
             exit |-> exit_signal(d)]
    ELSE
        LET target == IF control_locked
                      THEN sim_player_speed + (c.aggression - 100) * 12
                      ELSE sim_player_speed + (c.aggression - 100) * 32
            accel  == IF control_locked THEN 280 * delta
                      ELSE (360 * c.aggression * delta) \div 100
            sp == move_toward(c.speed, target, accel)
            d0 == in_range(c.distance - (sp - sim_player_speed) * delta)
            d  == rolling_floor(d0, control_locked)
        IN  [car |-> [c EXCEPT !.lane_change_timer = lct, !.speed = sp, !.distance = d],
             exit |-> exit_signal(d)]

\* ---------------------------------------------------------- random draws
\* random.uniform(a, b) for the variate u/UMAX of the underlying random()
UMAX == 100
uniform(a, b, u) == a + ((b - a) * u) \div UMAX

\* The draws made while one Car is constructed: pos is the variate of the
\* caller's uniform() for the distance, aggr the variate of Car.__init__'s
\* random.uniform(0.85, 1.2).  A bounded set of outcomes.
CarDraws == {[pos |-> 0, aggr |-> 0], [pos |-> UMAX, aggr |-> UMAX]}

aggression_of(draw) == uniform(AGGRESSION_MIN, AGGRESSION_MAX, draw.aggr)

\* -------------------------------------------------------------- drivers
\* DriverInfo("00", "Player", "Home Team", ...)
create_default_driver == "00"

\* driver_pool = drivers[:] or [create_default_driver()]
driver_pool(drivers) == IF drivers = <<>> THEN <<create_default_driver>> ELSE drivers

\* random.shuffle: the orders a list of n entries can come out in
Orders(n) == {p \in [1..n -> 1..n] : \A i \in 1..n, j \in 1..n : p[i] = p[j] => i = j}

\* the driver of the k-th car built: the shuffled pool, gone through in a cycle
cycled_driver(pool, order, k) == pool[order[((k - 1) % Len(pool)) + 1]]

\* ---------------------------------------------------------- TrackPreset
\* field_size = 0 stands for None, formation_lanes = <<>> for None.
\* pack_rows and field_size are cut to the bounds PackRows and FieldSize.
TrackPreset(lane_count, pack_rows, row_gap, laps, field_size, formation_lanes) ==
    [lane_count |-> lane_count, pack_rows |-> Min(pack_rows, PackRows),
     row_gap |-> row_gap, laps |-> laps,
     field_size |-> Min(field_size, FieldSize),
     formation_lanes |-> formation_lanes]

TRACK_PRESETS ==
    << TrackPreset(3, 23, 56, 12, 43, <<0, 2>>),
       TrackPreset(3, 6, 70, 10, 0, <<>>),
       TrackPreset(5, 8, 65, 8, 0, <<>>),
       TrackPreset(4, 5, 80, 6, 0, <<>>) >>

\* the same preset with pack_rows and field_size as given
sized(preset, pack_rows, field_size) ==
    [preset EXCEPT !.pack_rows = pack_rows, !.field_size = field_size]

\* the presets of the table with the rows and the field size of the source
FULL_TRACK_PRESETS ==
    << sized(TRACK_PRESETS[1], 23, 43),
       sized(TRACK_PRESETS[2], 6, 0),
       sized(TRACK_PRESETS[3], 8, 0),
       sized(TRACK_PRESETS[4], 5, 0) >>

\* start_quick_race: replace(preset_base, lane_count=2, ..., field_size=43)
quick_race_preset ==
    TrackPreset(2, QUICK_RACE_PACK_ROWS, QUICK_RACE_ROW_GAP, 12,
                DEFAULT_FIELD_SIZE, <<0, 1>>)

\* the tracks a behaviour selects: the default quick race, and one menu preset
TrackIds == {0, 1}

range_seq(n) == [k \in 1..n |-> k - 1]

RECURSIVE filter_lanes(_, _)
filter_lanes(lanes, lane_count) ==
    IF lanes = <<>> THEN <<>>
    ELSE LET rest == filter_lanes(Tail(lanes), lane_count) IN
         IF 0 <= Head(lanes) /\ Head(lanes) < lane_count
         THEN <<Head(lanes)>> \o rest ELSE rest

\* [lane for lane in (preset.formation_lanes or list(range(n))) if 0 <= lane < n]
formation_of(preset, lane_count) ==
    filter_lanes(IF preset.formation_lanes # <<>> THEN preset.formation_lanes
                 ELSE range_seq(lane_count), lane_count)

\* ------------------------------------------------------------ spawn_pack
spawn_lanes(preset) ==
    LET lane_count == Max(1, preset.lane_count)
        f == formation_of(preset, lane_count)
    IN  IF f = <<>> THEN range_seq(lane_count) ELSE f

\* a variant of spawn_limit that counts the controlled car in
spawn_limit_all(preset) ==
    LET lane_count == Max(1, preset.lane_count)
        field_target == IF preset.field_size # 0 /\ preset.field_size > 1
                        THEN preset.field_size
                        ELSE preset.pack_rows * lane_count
        columns == Max(1, Len(spawn_lanes(preset)))
    IN  Min(Max(3, field_target), preset.pack_rows * columns)

\* ai_limit of lines 794-803
spawn_limit(preset) ==
    LET lane_count == Max(1, preset.lane_count)
        field_target == IF preset.field_size # 0 /\ preset.field_size > 1
                        THEN preset.field_size
                        ELSE preset.pack_rows * lane_count
        ai_limit == Max(3, IF preset.field_size # 0 THEN field_target - 1
                           ELSE field_target)
        columns == Max(1, Len(spawn_lanes(preset)))
    IN  Min(ai_limit, preset.pack_rows * columns)

\* the cars spawn_pack appends: draws[k] are the draws of the k-th car;
\* the loop stops at the first idx whose row is outside the pack
spawn_count(preset) ==
    LET columns == Max(1, Len(spawn_lanes(preset)))
    IN  Min(spawn_limit(preset), preset.pack_rows * columns)

\* a variant of spawn_row_spacing: a quarter of the row gap, and no floor
spawn_row_spacing_tight(preset) == (preset.row_gap * DU) \div 4

\* row_spacing = max(18.0, preset.row_gap * 0.5)
spawn_row_spacing(preset) == Max(18 * DU, (preset.row_gap * DU) \div 2)

spawn_pack(preset, drivers, order, draws, first_id) ==
    LET lanes == spawn_lanes(preset)
        columns == Max(1, Len(lanes))
        row_spacing == spawn_row_spacing(preset)
    IN  [k \in 1..spawn_count(preset) |->
            LET idx == k - 1
                row == idx \div columns
                distance == 120 * DU + row * row_spacing
                jitter == uniform(-(3 * DU),
                                  (3 * DU * row) \div Max(1, preset.pack_rows),
                                  draws[k].pos)
            IN  Car(first_id + idx, lanes[(idx % columns) + 1], distance + jitter,
                    aggression_of(draws[k]),
                    cycled_driver(driver_pool(drivers), order, k))]

\* --------------------------------------------------- build_two_wide_pack
two_wide_lanes(preset) ==
    LET f == formation_of(preset, preset.lane_count)
    IN  IF Len(f) < 2 THEN range_seq(Min(2, preset.lane_count)) ELSE f

\* a variant of two_wide_target that counts the controlled car in
two_wide_target_all(preset) ==
    IF preset.field_size # 0 THEN preset.field_size
    ELSE preset.pack_rows * Len(two_wide_lanes(preset))

\* target_ai = (preset.field_size or (preset.pack_rows * len(formation_lanes))) - 1
two_wide_target(preset) ==
    (IF preset.field_size # 0 THEN preset.field_size
     ELSE preset.pack_rows * Len(two_wide_lanes(preset))) - 1

\* the grid cells visited in order, the player's cell left out
RECURSIVE two_wide_cells(_, _, _, _, _)
two_wide_cells(preset, player_lane_index, player_row_index, row, k) ==
    IF row >= preset.pack_rows THEN <<>>
    ELSE LET lanes == SubSeq(two_wide_lanes(preset), 1, 2)
             nrow == IF k >= Len(lanes) THEN row + 1 ELSE row
             nk   == IF k >= Len(lanes) THEN 1 ELSE k + 1
             rest == two_wide_cells(preset, player_lane_index, player_row_index, nrow, nk)
         IN  IF row = player_row_index /\ lanes[k] = player_lane_index
             THEN rest
             ELSE <<[row |-> row, lane |-> lanes[k]]>> \o rest

\* the cells that get a car: the loop returns once len(ai) >= target_ai
two_wide_grid(preset, player_lane_index, player_row_index) ==
    IF preset.lane_count < 2 \/ two_wide_target(preset) <= 0 THEN <<>>
    ELSE LET cells == two_wide_cells(preset, player_lane_index, player_row_index, 0, 1)
         IN  SubSeq(cells, 1, Min(Len(cells), two_wide_target(preset)))

build_two_wide_pack(preset, drivers, order, draws, player_lane_index, player_row_index, row_spacing_override, first_id) ==
    LET grid == two_wide_grid(preset, player_lane_index, player_row_index)
        row_spacing == Max(Max((COLLISION_GAP + 1) * DU, 6 * DU), row_spacing_override)
        base_distance == -(player_row_index * row_spacing)
        jitter_scale == (row_spacing * QUICK_RACE_ROW_JITTER_X100) \div 100
    IN  [k \in 1..Len(grid) |->
            Car(first_id + k - 1, grid[k].lane,
                base_distance + grid[k].row * row_spacing
                    + uniform(-jitter_scale, jitter_scale, draws[k].pos),
                aggression_of(draws[k]),
                cycled_driver(driver_pool(drivers), order, k))]

\* ----------------------------------------------------------- recycle_car
\* random.choice(drivers) raises IndexError on an empty list
recycle_fails(drivers) == drivers = <<>>

\* lane is random.randrange(preset.lane_count), drivers[pick] is
\* random.choice(drivers)
recycle_car(preset, drivers, lane, pick, draw, id) ==
    Car(id, lane, uniform(RECYCLE_MIN * DU, RECYCLE_MAX * DU, draw.pos),
        aggression_of(draw), drivers[pick])

RecycleDraws(preset, drivers) ==
    [lane : 0..(preset.lane_count - 1), draw : CarDraws, pick : 1..Len(drivers)]


\* ------------------------------------------------------- lanes of a field
\* lanes[lane]: the indices of the cars of a lane, in list order
RECURSIVE lane_members(_, _, _)
lane_members(cars, lane, k) ==
    IF k > Len(cars) THEN <<>>
    ELSE IF cars[k].lane_index = lane
         THEN <<k>> \o lane_members(cars, lane, k + 1)
         ELSE lane_members(cars, lane, k + 1)

\* list.sort(key=distance, reverse=True) is stable: equal distances keep
\* their list order.  i comes after every index of sorted in list order.
RECURSIVE insert_desc(_, _, _)
insert_desc(sorted, i, cars) ==
    IF sorted = <<>> THEN <<i>>
    ELSE IF cars[Head(sorted)].distance >= cars[i].distance
         THEN <<Head(sorted)>> \o insert_desc(Tail(sorted), i, cars)
         ELSE <<i>> \o sorted

RECURSIVE sort_desc(_, _)
sort_desc(idxs, cars) ==
    IF idxs = <<>> THEN <<>>
    ELSE insert_desc(sort_desc(SubSeq(idxs, 1, Len(idxs) - 1), cars),
                     idxs[Len(idxs)], cars)

sorted_lane(cars, lane) == sort_desc(lane_members(cars, lane, 1), cars)

lanes_of(cars) == {cars[k].lane_index : k \in 1..Len(cars)}

\* -------------------------------------------------- attempt_lane_changes
\* the inner loop over the cars of new_lane
lane_conflict(cars, i, new_lane) ==
    \E k \in 1..Len(cars) :
        /\ k # i
        /\ cars[k].lane_index = new_lane
        /\ Abs(cars[k].distance - cars[i].distance) < 170 * DU

is_blocked(cars, i) ==
    \E k \in 1..Len(cars) :
        /\ k # i
        /\ cars[k].lane_index = cars[i].lane_index
        /\ 0 < cars[k].distance - cars[i].distance
        /\ cars[k].distance - cars[i].distance < 160 * DU

\* a variant of lane_ok without the range test
lane_ok_unchecked(cars, i, new_lane, lane_count) == ~lane_conflict(cars, i, new_lane)

\* a candidate lane is taken when it is on the track and free of conflict
lane_ok(cars, i, new_lane, lane_count) ==
    /\ 0 <= new_lane /\ new_lane < lane_count
    /\ ~lane_conflict(cars, i, new_lane)

\* for delta_lane in (direction, -direction): the lane car i takes, or its own
choose_lane(cars, i, direction, lane_count) ==
    LET first  == cars[i].lane_index + direction
        second == cars[i].lane_index - direction
    IN  IF lane_ok(cars, i, first, lane_count) THEN first
        ELSE IF lane_ok(cars, i, second, lane_count) THEN second
        ELSE cars[i].lane_index

\* a variant of attempt_lane_changes that decides every car on the lanes as
\* they were before the pass
attempt_lane_changes_stale(cars, lane_count, dirs, i) ==
    [k \in 1..Len(cars) |->
        IF k < i \/ cars[k].lane_change_timer > 0 \/ ~is_blocked(cars, k) THEN cars[k]
        ELSE LET new_lane == choose_lane(cars, k, dirs[k], lane_count)
             IN  IF new_lane = cars[k].lane_index THEN cars[k]
                 ELSE [cars[k] EXCEPT !.lane_index = new_lane,
                                      !.lane_change_timer = AI_LANE_COOLDOWN]]

\* dirs[i] is random.choice([-1, 1]) of car i
RECURSIVE attempt_lane_changes(_, _, _, _)
attempt_lane_changes(cars, lane_count, dirs, i) ==
    IF i > Len(cars) THEN cars
    ELSE IF cars[i].lane_change_timer > 0 \/ ~is_blocked(cars, i)
         THEN attempt_lane_changes(cars, lane_count, dirs, i + 1)
         ELSE LET new_lane == choose_lane(cars, i, dirs[i], lane_count)
                  moved == IF new_lane = cars[i].lane_index THEN cars
                           ELSE [cars EXCEPT ![i].lane_index = new_lane,
                                             ![i].lane_change_timer = AI_LANE_COOLDOWN]
              IN  attempt_lane_changes(moved, lane_count, dirs, i + 1)

\* ------------------------------------------------------- apply_drafting
\* a variant of slipstream that grows with the gap
slipstream_far(gap) == IF gap < 160 * DU THEN (7 * gap) \div 4000 ELSE 0

\* if gap < 160: boost = 28.0 * (1 - gap / 160), in 1/SU
slipstream(gap) == IF gap < 160 * DU THEN (7 * (160 * DU - gap)) \div 4000 ELSE 0

\* a variant of draft_pair that leaves the trailing car's distance alone
draft_pair_unclamped(cars, lead, trail) ==
    LET gap == cars[lead].distance - cars[trail].distance
        boost == slipstream(gap)
        near == gap < 28 * DU
        push_trail == IF near THEN ((28 * DU - gap) * 2) \div 175 ELSE 0
        push_lead  == IF near THEN ((28 * DU - gap) * 9) \div 1400 ELSE 0
    IN  IF gap <= 0 THEN cars
        ELSE [cars EXCEPT
                ![trail].speed = @ + boost + push_trail,
                ![lead].speed = @ + push_lead]

\* a variant of draft_pair that gives the slipstream boost to the lead car
draft_pair_lead(cars, lead, trail) ==
    LET gap == cars[lead].distance - cars[trail].distance
        boost == slipstream(gap)
        near == gap < 28 * DU
        push_trail == IF near THEN ((28 * DU - gap) * 2) \div 175 ELSE 0
        push_lead  == IF near THEN ((28 * DU - gap) * 9) \div 1400 ELSE 0
    IN  IF gap <= 0 THEN cars
        ELSE [cars EXCEPT
                ![trail].speed = @ + push_trail,
                ![lead].speed = @ + boost + push_lead,
                ![trail].distance =
                    IF near THEN Min(@, cars[lead].distance - 14 * DU) ELSE @]

\* one (lead, trail) pair of the walk
draft_pair(cars, lead, trail) ==
    LET gap == cars[lead].distance - cars[trail].distance
        boost == slipstream(gap)
        near == gap < 28 * DU
        push_trail == IF near THEN ((28 * DU - gap) * 2) \div 175 ELSE 0
        push_lead  == IF near THEN ((28 * DU - gap) * 9) \div 1400 ELSE 0
    IN  IF gap <= 0 THEN cars
        ELSE [cars EXCEPT
                ![trail].speed = @ + boost + push_trail,
                ![lead].speed = @ + push_lead,
                ![trail].distance =
                    IF near THEN Min(@, cars[lead].distance - 14 * DU) ELSE @]

\* what the walk did to one pair: the two cars as the pair found them and
\* as it left them
pair_entry(cars, out, first, second) ==
    [lead |-> cars[first], trail |-> cars[second],
     lead_out |-> out[first], trail_out |-> out[second]]

\* the same for a pair of apply_drafting, with the slipstream boost of
\* line 953, 0 when the pair is skipped
draft_entry(cars, out, lead, trail) ==
    LET gap == cars[lead].distance - cars[trail].distance
    IN  [lead |-> cars[lead], trail |-> cars[trail],
         lead_out |-> out[lead], trail_out |-> out[trail],
         boost |-> IF gap <= 0 THEN 0 ELSE slipstream(gap)]

\* acc = [cars, log]: log collects the pairs in the order of the walk
RECURSIVE draft_lane(_, _, _)
draft_lane(acc, order, i) ==
    IF i >= Len(order) THEN acc
    ELSE LET out == draft_pair(acc.cars, order[i], order[i + 1])
         IN  draft_lane([cars |-> out,
                         log |-> Append(acc.log,
                                        draft_entry(acc.cars, out, order[i], order[i + 1]))],
                        order, i + 1)

RECURSIVE draft_lanes(_, _)
draft_lanes(acc, lanes) ==
    IF lanes = {} THEN acc
    ELSE LET lane == CHOOSE l \in lanes : TRUE
         IN  draft_lanes(draft_lane(acc, sorted_lane(acc.cars, lane), 1), lanes \ {lane})

\* contact of one car of the player's lane, in 1/KU
KU == 1000
contact_of(gap) ==
    IF 0 < gap /\ gap < 42 * DU THEN (42 * DU - gap) \div 14 ELSE 0

RECURSIVE contact_sum(_, _, _)
contact_sum(cars, player_lane, k) ==
    IF k > Len(cars) THEN 0
    ELSE (IF cars[k].lane_index = player_lane THEN contact_of(cars[k].distance) ELSE 0)
         + contact_sum(cars, player_lane, k + 1)

contact_cars(cars, player_lane) ==
    [k \in 1..Len(cars) |->
        IF cars[k].lane_index = player_lane /\ 0 < cars[k].distance
           /\ cars[k].distance < 42 * DU
        THEN [cars[k] EXCEPT !.speed = @ + (42 * DU - cars[k].distance) \div 150]
        ELSE cars[k]]

\* the field after apply_drafting, the returned contact boost, and the
\* pairs of the walk
apply_drafting(cars, player_lane) ==
    LET walked == draft_lanes([cars |-> cars, log |-> <<>>], lanes_of(cars))
    IN  [cars |-> contact_cars(walked.cars, player_lane),
         contact |-> Min(contact_sum(walked.cars, player_lane, 1), 50 * KU),
         log |-> walked.log]

\* ------------------------------------------------ compute_draft_intensity
\* the intensity 1 - gap/200 in 1/DU
RECURSIVE compute_draft_intensity(_, _, _)
compute_draft_intensity(cars, lane_index, k) ==
    IF k > Len(cars) THEN 0
    ELSE LET gap == cars[k].distance
             here == IF cars[k].lane_index = lane_index /\ 0 < gap /\ gap < 200 * DU
                     THEN (200 * DU - gap) \div 200 ELSE 0
         IN  Max(here, compute_draft_intensity(cars, lane_index, k + 1))

\* a variant of is_lane_clear_for_player that counts a car at exactly the
\* safety distance as in the way
is_lane_clear_inclusive(target_lane, cars, safety_distance) ==
    \A k \in 1..Len(cars) :
        ~(cars[k].lane_index = target_lane /\ Abs(cars[k].distance) <= safety_distance)

\* ----------------------------------------------- is_lane_clear_for_player
is_lane_clear_for_player(target_lane, cars, safety_distance) ==
    \A k \in 1..Len(cars) :
        ~(cars[k].lane_index = target_lane /\ Abs(cars[k].distance) < safety_distance)


\* --------------------------------------------------- resolve_collisions
\* t.state = "CRASHING"; t.crash_timer = 1.2
crash(car) == [car EXCEPT !.state = "CRASHING", !.crash_timer = CRASH_TIME]

\* for t in (ahead, behind): crash t
crash_both(cars, ahead, behind) ==
    [cars EXCEPT ![ahead] = crash(@), ![behind] = crash(@)]

\* a variant of bump with the two shares of the transfer exchanged
bump_pull(cars, ahead, behind, rel) ==
    LET transfer == Max(0, (rel * 45) \div 100)
    IN  [cars EXCEPT ![ahead].speed = @ + (transfer * 35) \div 100,
                     ![behind].speed = Max(0, @ - (transfer * 65) \div 100)]

\* the bump branch: a partial transfer of the closing speed
bump(cars, ahead, behind, rel) ==
    LET transfer == Max(0, (rel * 45) \div 100)
    IN  [cars EXCEPT ![ahead].speed = @ + (transfer * 65) \div 100,
                     ![behind].speed = Max(0, @ - (transfer * 35) \div 100)]

\* behind.distance = min(behind.distance, ahead.distance - COLLISION_GAP)
clamp_behind(behind_distance, ahead_distance) ==
    Min(behind_distance, ahead_distance - COLLISION_GAP * DU)

\* the pair is in contact and closing faster than the crash threshold
crash_condition(cars, ahead, behind) ==
    /\ cars[ahead].state = "RUNNING" /\ cars[behind].state = "RUNNING"
    /\ cars[ahead].distance - cars[behind].distance <= COLLISION_GAP * DU
    /\ cars[behind].speed - cars[ahead].speed > CRASH_REL_UNITS

\* a variant of skipped that lets the resolver look at a spinning car again
skipped_wreck(car) == car.state = "DISABLED"

\* if ahead.state != "RUNNING" or behind.state != "RUNNING": continue
skipped(car) == car.state # "RUNNING"

\* one (ahead, behind) pair of the walk
collide_pair(cars, ahead, behind) ==
    IF skipped(cars[ahead]) \/ skipped(cars[behind]) THEN cars
    ELSE LET gap == cars[ahead].distance - cars[behind].distance
             rel == cars[behind].speed - cars[ahead].speed
             hit == IF rel > CRASH_REL_UNITS THEN crash_both(cars, ahead, behind)
                    ELSE bump(cars, ahead, behind, rel)
         IN  IF gap <= COLLISION_GAP * DU
             THEN [hit EXCEPT ![behind].distance =
                        clamp_behind(@, cars[ahead].distance)]
             ELSE cars

\* acc = [cars, hits, log]: hits collects the ids of the pairs that met the
\* crash condition when the walk examined them, log the pairs of the walk
RECURSIVE collide_lane(_, _, _)
collide_lane(acc, order, i) ==
    IF i >= Len(order) THEN acc
    ELSE LET a == order[i]
             b == order[i + 1]
             met == crash_condition(acc.cars, a, b)
             out == collide_pair(acc.cars, a, b)
         IN  collide_lane([cars |-> out,
                           hits |-> IF met
                                    THEN acc.hits \cup {acc.cars[a].id, acc.cars[b].id}
                                    ELSE acc.hits,
                           log |-> Append(acc.log, pair_entry(acc.cars, out, a, b))],
                          order, i + 1)

RECURSIVE collide_lanes(_, _)
collide_lanes(acc, lanes) ==
    IF lanes = {} THEN acc
    ELSE LET lane == CHOOSE l \in lanes : TRUE
         IN  collide_lanes(collide_lane(acc, sorted_lane(acc.cars, lane), 1),
                           lanes \ {lane})

\* a variant of floor_ahead that leaves the distance alone
floor_ahead_none(distance) == distance

\* car.distance = max(car.distance, COLLISION_GAP)
floor_ahead(distance) == Max(distance, COLLISION_GAP * DU)

\* the cars of the player's lane against the controlled car
player_contact(car, player_lane_index) ==
    /\ car.lane_index = player_lane_index
    /\ car.state = "RUNNING"
    /\ 0 < car.distance /\ car.distance <= COLLISION_GAP * DU

player_hit(car, player_sim_speed) ==
    LET rel == player_sim_speed - car.speed
        transfer == Max(0, (rel * 45) \div 100)
        hit == IF rel > CRASH_REL_UNITS THEN crash(car)
               ELSE [car EXCEPT !.speed = @ + (transfer * 70) \div 100]
    IN  [hit EXCEPT !.distance = floor_ahead(@)]

\* what one contacting car takes off player_mph_delta, in 1/MU mph
player_penalty(car, player_sim_speed) ==
    LET rel == player_sim_speed - car.speed
        transfer == Max(0, (rel * 45) \div 100)
    IN  IF rel > CRASH_REL_UNITS THEN 8 * MU
        ELSE Min(3 * MU, (transfer * 7) \div 760)

RECURSIVE penalty_sum(_, _, _, _)
penalty_sum(cars, player_lane_index, player_sim_speed, k) ==
    IF k > Len(cars) THEN 0
    ELSE (IF player_contact(cars[k], player_lane_index)
          THEN player_penalty(cars[k], player_sim_speed) ELSE 0)
         + penalty_sum(cars, player_lane_index, player_sim_speed, k + 1)

\* the field as the walk over the lanes leaves it, before the cars of the
\* player's lane are looked at
walked_cars(cars) ==
    collide_lanes([cars |-> cars, hits |-> {}, log |-> <<>>], lanes_of(cars)).cars

\* the field after resolve_collisions, the returned player_mph_delta, and
\* the ids of the pairs that met the crash condition
resolve_collisions(cars, player_lane_index, player_sim_speed) ==
    LET walked == collide_lanes([cars |-> cars, hits |-> {}, log |-> <<>>],
                                lanes_of(cars))
    IN  [cars |-> [k \in 1..Len(cars) |->
                      IF player_contact(walked.cars[k], player_lane_index)
                      THEN player_hit(walked.cars[k], player_sim_speed)
                      ELSE walked.cars[k]],
         mph_delta |-> -penalty_sum(walked.cars, player_lane_index, player_sim_speed, 1),
         hits |-> walked.hits,
         log |-> walked.log]

\* -------------------------------------------------- compute_turn_penalty
\* TURN_PENALTY_MAX * sin(2 pi phase)^2 in 1/MU mph, with the phase cut to
\* eighths of a lap: sin^2 is 0, 1/2, 1, 1/2 there
compute_turn_penalty(total_distance) ==
    LET eighth == ((total_distance % (LAP_DISTANCE * DU)) * 8) \div (LAP_DISTANCE * DU)
        k == eighth % 4
    IN  IF k = 0 THEN 0
        ELSE IF k = 2 THEN TURN_PENALTY_MAX * MU
        ELSE (TURN_PENALTY_MAX * MU) \div 2


\* =================================================================== state
VARIABLES
    state,                \* "TITLE" | "MENU" | "RACE"
    active_preset,
    ai_cars,              \* the list of AI cars, in list order
    rolling_timer,
    control_locked,
    player_lane_target,
    player_lane_value,
    player_lane_index,    \* the frame's local of line 1433, set before it is read
    lane_cooldown,
    player_speed_mph,
    target_mph,           \* the frame's local of lines 1442-1447
    sim_speed,
    draft_bonus,
    contact_boost_cache,
    total_distance,
    current_lap,
    delta,                \* this frame's clock.tick(FPS) / 1000.0
    keys,                 \* the held keys this frame reads
    pc,                   \* the place of the frame body the loop is at
    frames,               \* frames run so far, counted up to MaxFrames
    races,                \* calls of start_quick_race so far
    next_id,              \* identity of the next Car object
    upd_snap,             \* ids of ai_cars[:] of the last update pass
    upd_log,              \* the Car.update calls of the last update pass
    crash_hits,           \* ids that met the crash condition in the last resolver pass
    draft_log,            \* the pairs of the last apply_drafting walk
    hit_log,              \* the pairs of the last resolve_collisions walk
    frame_trace,          \* the stages of the frame that have run, in their order
    driver_library,       \* the roster the pack is cast from
    failure               \* the exception that ended the program, "" while it runs

vars == << state, active_preset, ai_cars, rolling_timer, control_locked,
           player_lane_target, player_lane_value, player_lane_index,
           lane_cooldown, player_speed_mph, target_mph, sim_speed, draft_bonus,
           contact_boost_cache, total_distance, current_lap, delta, keys, pc,
           frames, races, next_id, upd_snap, upd_log, crash_hits, draft_log,
           hit_log, frame_trace, driver_library, failure >>

roster_vars == << driver_library, failure >>

\* what the passes of the last frame left behind
pass_vars == << upd_snap, upd_log, crash_hits, draft_log, hit_log >>

race_vars == << rolling_timer, control_locked, player_lane_target,
                player_lane_value, player_lane_index, lane_cooldown,
                player_speed_mph, target_mph, sim_speed, draft_bonus,
                contact_boost_cache, total_distance, current_lap, delta, keys >>

player_vars == << rolling_timer, control_locked, player_lane_target,
                  player_lane_value, player_lane_index, lane_cooldown, target_mph,
                  sim_speed, total_distance, current_lap, delta, keys >>

\* the frame times and key states a behaviour draws from
DtSet == {2, 500}
KeySets == {{}, {"LEFT"}, {"RIGHT"}, {"DOWN"}, {"LEFT", "RIGHT"}}

\* what load_cup21_drivers() returns where the manifest is missing
LoadedRoster == <<>>

\* a variant of load_roster without the substitution
load_roster_raw(loaded) == loaded

\* driver_library = load_cup21_drivers(); if not driver_library: ...
load_roster(loaded) == IF loaded = <<>> THEN <<create_default_driver>> ELSE loaded

\* main() before the loop
\* the title screen of a program that has loaded this roster
title_state(loaded) ==
    /\ state = "TITLE"
    /\ driver_library = load_roster(loaded)
    /\ failure = ""
    /\ active_preset = TRACK_PRESETS[1]
    /\ ai_cars = <<>>
    /\ rolling_timer = 0
    /\ control_locked = FALSE
    /\ player_lane_target = TRACK_PRESETS[1].lane_count \div 2
    /\ player_lane_value = (TRACK_PRESETS[1].lane_count \div 2) * LU
    /\ player_lane_index = TRACK_PRESETS[1].lane_count \div 2
    /\ lane_cooldown = 0
    /\ player_speed_mph = 0
    /\ target_mph = 0
    /\ sim_speed = 0
    /\ draft_bonus = 0
    /\ contact_boost_cache = 0
    /\ total_distance = 0
    /\ current_lap = 1
    /\ delta = 0
    /\ keys = {}
    /\ pc = "input"
    /\ frames = 0
    /\ races = 0
    /\ next_id = 1
    /\ upd_snap = <<>>
    /\ upd_log = <<>>
    /\ crash_hits = {}
    /\ draft_log = <<>>
    /\ hit_log = <<>>
    /\ frame_trace = <<>>

TitleInit == title_state(LoadedRoster)

\* ------------------------------------------------------ start_quick_race
\* track is the index into TRACK_PRESETS; the preset named
\* DEFAULT_QUICK_RACE_PRESET is the first one
quick_race_layout(track) == track = 0

preset_of(track) ==
    IF quick_race_layout(track) THEN quick_race_preset ELSE TRACK_PRESETS[track + 1]

start_lane_target(track) ==
    IF quick_race_layout(track)
    THEN clamp(QUICK_RACE_PLAYER_LANE, 0, preset_of(track).lane_count - 1)
    ELSE preset_of(track).lane_count \div 2

start_row_index(track) ==
    IF quick_race_layout(track)
    THEN clamp(QUICK_RACE_PLAYER_ROW, 0, preset_of(track).pack_rows - 1)
    ELSE preset_of(track).pack_rows - 1

\* whether the two-wide grid is what the race starts with
uses_two_wide(track) ==
    /\ quick_race_layout(track)
    /\ two_wide_grid(preset_of(track), start_lane_target(track),
                     start_row_index(track)) # <<>>

start_count(track) ==
    IF uses_two_wide(track)
    THEN Len(two_wide_grid(preset_of(track), start_lane_target(track),
                           start_row_index(track)))
    ELSE spawn_count(preset_of(track))

start_pack(track, drivers, order, draws) ==
    IF uses_two_wide(track)
    THEN build_two_wide_pack(preset_of(track), drivers, order, draws,
                             start_lane_target(track), start_row_index(track),
                             preset_of(track).row_gap * DU, 1)
    ELSE spawn_pack(preset_of(track), drivers, order, draws, 1)

\* an exception nothing catches ends the program where it is
raise(exception) ==
    /\ failure' = exception
    /\ UNCHANGED << state, active_preset, ai_cars, race_vars, pc, frames, races,
                    next_id, pass_vars, frame_trace, driver_library >>

\* lines 1324-1335: the race starts at rest, under the rolling start
race_reset ==
    /\ lane_cooldown' = 0
    /\ player_speed_mph' = 0
    /\ draft_bonus' = 0
    /\ contact_boost_cache' = 0
    /\ total_distance' = 0
    /\ current_lap' = 1
    /\ rolling_timer' = ROLLING_DURATION
    /\ state' = "RACE"
    /\ races' = races + 1
    /\ upd_snap' = <<>>
    /\ upd_log' = <<>>
    /\ crash_hits' = {}
    /\ draft_log' = <<>>
    /\ hit_log' = <<>>
    /\ UNCHANGED << control_locked, player_lane_index, target_mph, sim_speed, delta,
                    keys, pc, frames, frame_trace, roster_vars >>

\* the nonlocals as start_quick_race leaves them
race_started(track) ==
    /\ \E draws \in [1..start_count(track) -> CarDraws],
          order \in Orders(Len(driver_pool(driver_library))) :
          ai_cars' = start_pack(track, driver_library, order, draws)
    /\ active_preset' = preset_of(track)
    /\ player_lane_target' = start_lane_target(track)
    /\ player_lane_value' = start_lane_target(track) * LU
    /\ next_id' = start_count(track) + 1
    /\ race_reset

\* line 1319, player_driver = driver_library[driver_index_to_use], raises
\* IndexError on an empty library
start_quick_race(track) ==
    /\ races < MaxRaces
    /\ IF driver_library = <<>> THEN raise("IndexError") ELSE race_started(track)

\* ------------------------------------------------------------ the events
\* TITLE: Return, Space or a click on "Quick Race"
StartFromTitle ==
    /\ state = "TITLE" /\ pc = "input" /\ failure = ""
    /\ start_quick_race(0)

\* TITLE: a click on "Settings"
OpenMenu ==
    /\ state = "TITLE" /\ pc = "input" /\ failure = ""
    /\ state' = "MENU"
    /\ UNCHANGED << active_preset, roster_vars, ai_cars, race_vars, pc, frames, races, next_id,
                    pass_vars, frame_trace >>

\* MENU: Return on the selected track
StartFromMenu ==
    /\ state = "MENU" /\ pc = "input" /\ failure = ""
    /\ \E track \in TrackIds : start_quick_race(track)

\* RACE: Escape.  A behaviour leaves a race only while it has frames left.
EscapeToMenu ==
    /\ state = "RACE" /\ pc = "input" /\ failure = "" /\ frames < MaxFrames
    /\ state' = "MENU"
    /\ UNCHANGED << active_preset, roster_vars, ai_cars, race_vars, pc, frames, races, next_id,
                    pass_vars, frame_trace >>


\* ====================================================== the frame of a race
\* player lane handling: the lane target after the key handling.
\* cooldown is lane_cooldown after this frame's decrement.
desired_lane(target, held, lane_count) ==
    IF "LEFT" \in held THEN Max(0, target - 1)
    ELSE IF "RIGHT" \in held THEN Min(lane_count - 1, target + 1)
    ELSE target

lane_accepted(target, held, lane_count, cooldown, cars) ==
    /\ cooldown <= 0
    /\ desired_lane(target, held, lane_count) # target
    /\ is_lane_clear_for_player(desired_lane(target, held, lane_count), cars,
                                LANE_SAFETY_DISTANCE * DU)

\* a variant of rolling_tick that takes the magnitude instead of the floor
rolling_tick_bounce(timer, dt) == Abs(timer - dt)

\* rolling_timer = max(0.0, rolling_timer - delta)
rolling_tick(timer, dt) == Max(0, timer - dt)

\* the controlled car's target speed, in 1/MU mph
rolling_target(timer) ==
    LET progress == clamp(ROLLING_DURATION - timer, 0, ROLLING_DURATION)
    IN  ROLLING_START_MIN_MPH * MU
        + (progress * (ROLLING_START_MAX_MPH - ROLLING_START_MIN_MPH) * MU)
              \div ROLLING_DURATION

\* a variant of racing_target in which the brake takes 40 mph off the
\* cruise speed instead of replacing it
racing_target_soft(bonus, contact, turn_penalty, brake) ==
    LET cruise == CONTROLLED_BASE_MPH * MU + (bonus * 18 * MU) \div DU
                  + (contact * 28 * MU) \div (100 * KU) - turn_penalty
    IN  clamp(IF brake THEN cruise - 40 * MU ELSE cruise,
              BRAKE_MPH * MU, (CONTROLLED_BASE_MPH + 40) * MU)

\* lines 1444-1447
racing_target(bonus, contact, turn_penalty, brake) ==
    LET cruise == CONTROLLED_BASE_MPH * MU + (bonus * 18 * MU) \div DU
                  + (contact * 28 * MU) \div (100 * KU) - turn_penalty
    IN  clamp(IF brake THEN BRAKE_MPH * MU ELSE cruise,
              BRAKE_MPH * MU, (CONTROLLED_BASE_MPH + 40) * MU)

\* lines 1407-1454: timers, the controlled car's lane and speed, lap accounting
player_step(dts, keysets) ==
    /\ state = "RACE" /\ pc = "input" /\ failure = ""
    /\ \E dt \in dts, held \in keysets :
        LET timer == rolling_tick(rolling_timer, dt)
            locked == timer > 0
            cooldown == Max(0, lane_cooldown - dt)
            lanes == active_preset.lane_count
            accepted == ~locked /\ lane_accepted(player_lane_target, held, lanes,
                                                 cooldown, ai_cars)
            target == IF locked THEN lanes \div 2
                      ELSE IF accepted
                           THEN desired_lane(player_lane_target, held, lanes)
                           ELSE player_lane_target
            value == move_toward(player_lane_value, target * LU, (65 * dt * LU) \div (10 * CS))
            turn_penalty == IF locked THEN 0 ELSE compute_turn_penalty(total_distance)
            aim == IF locked THEN rolling_target(timer)
                   ELSE racing_target(draft_bonus, contact_boost_cache,
                                      turn_penalty, "DOWN" \in held)
            mph == move_toward(player_speed_mph, aim, (120 * MU * dt) \div CS)
            sim == (mph * SPEED_SCALE_X10 * SU) \div (10 * MU)
            total == total_distance + sim * dt
            lapped == total >= LAP_DISTANCE * DU
        IN  /\ (locked => held = {})
            /\ delta' = dt
            /\ keys' = held
            /\ rolling_timer' = timer
            /\ control_locked' = locked
            /\ lane_cooldown' = IF accepted THEN LANE_CHANGE_COOLDOWN ELSE cooldown
            /\ player_lane_target' = target
            /\ player_lane_value' = value
            /\ player_lane_index' = round_lane(clamp(value, 0, (lanes - 1) * LU))
            /\ player_speed_mph' = mph
            /\ target_mph' = aim
            /\ sim_speed' = sim
            /\ total_distance' = IF lapped THEN total - LAP_DISTANCE * DU ELSE total
            /\ current_lap' = IF lapped THEN Min(current_lap + 1, active_preset.laps)
                              ELSE current_lap
    /\ pc' = "update"
    /\ frame_trace' = <<"lap">>
    /\ UNCHANGED << state, active_preset, roster_vars, ai_cars, draft_bonus, contact_boost_cache,
                    frames, races, next_id, pass_vars >>

PlayerStep == frames < MaxFrames /\ player_step(DtSet, KeySets)

\* ------------------------------------------------- the update/recycle loop
\* a variant of loop_car: for car in ai_cars, the list the loop body changes
loop_car_live(snapshot, cars, i) == cars[i]

\* for car in ai_cars[:] : the car the i-th iteration visits
loop_car(snapshot, cars, i) == snapshot[i]

\* the position of the car with this id in the list, 0 when it is not there
RECURSIVE index_of(_, _, _)
index_of(cars, id, k) ==
    IF k > Len(cars) THEN 0
    ELSE IF cars[k].id = id THEN k ELSE index_of(cars, id, k + 1)

remove_at(cars, k) == SubSeq(cars, 1, k - 1) \o SubSeq(cars, k + 1, Len(cars))

\* a variant of recycle without the append
recycle_drop(cars, k, fresh) == SubSeq(cars, 1, k - 1) \o SubSeq(cars, k + 1, Len(cars))

\* ai_cars.remove(car); ai_cars.append(recycle_car(...))
recycle(cars, k, fresh) == Append(remove_at(cars, k), fresh)

\* acc = [cars, log, next_id]; rc[id] are the random draws of the recycle_car
\* call made when the car with that id exits
RECURSIVE update_loop(_, _, _, _, _, _, _, _)
update_loop(acc, snapshot, i, n, rc, dt, sim, locked) ==
    IF i > n THEN acc
    ELSE LET car == loop_car(snapshot, acc.cars, i)
             k == index_of(acc.cars, car.id, 1)
             res == Car_update(acc.cars[k], dt, sim, locked)
             updated == [acc.cars EXCEPT ![k] = res.car]
             entry == [id |-> car.id, was |-> acc.cars[k].state,
                       car |-> res.car, exit |-> res.exit]
         IN  update_loop(
                [cars |-> IF res.exit
                          THEN recycle(updated, k,
                                       recycle_car(active_preset, driver_library,
                                                   rc[car.id].lane, rc[car.id].pick,
                                                   rc[car.id].draw, acc.next_id))
                          ELSE updated,
                 log |-> Append(acc.log, entry),
                 next_id |-> IF res.exit THEN acc.next_id + 1 ELSE acc.next_id],
                snapshot, i + 1, n, rc, dt, sim, locked)

\* the ids whose recycle draws matter: the cars that may exit in this pass
exit_ids(cars, dt, sim, locked) ==
    {cars[k].id : k \in {j \in 1..Len(cars) : Car_update(cars[j], dt, sim, locked).exit}}

all_ids(cars) == {cars[k].id : k \in 1..Len(cars)}

\* lines 1456-1459
UpdateCars ==
    /\ state = "RACE" /\ pc = "update" /\ failure = ""
    /\ IF /\ exit_ids(ai_cars, delta, sim_speed, control_locked) # {}
          /\ recycle_fails(driver_library)
       THEN raise("IndexError")
       ELSE /\ \E rc \in [exit_ids(ai_cars, delta, sim_speed, control_locked)
                             -> RecycleDraws(active_preset, driver_library)] :
                LET out == update_loop([cars |-> ai_cars, log |-> <<>>,
                                        next_id |-> next_id],
                                       ai_cars, 1, Len(ai_cars), rc, delta, sim_speed,
                                       control_locked)
                IN  /\ ai_cars' = out.cars
                    /\ upd_log' = out.log
                    /\ next_id' = out.next_id
            /\ upd_snap' = [k \in 1..Len(ai_cars) |-> ai_cars[k].id]
            /\ pc' = "lanes"
            /\ frame_trace' = Append(frame_trace, "update")
            /\ UNCHANGED << state, active_preset, roster_vars, race_vars, frames, races,
                            crash_hits, draft_log, hit_log >>

\* the cars that can be blocked in this pass, whatever lane the others take:
\* only they draw a direction
may_block(cars) ==
    {i \in 1..Len(cars) :
        /\ cars[i].lane_change_timer <= 0
        /\ \E k \in 1..Len(cars) :
              /\ k # i
              /\ 0 < cars[k].distance - cars[i].distance
              /\ cars[k].distance - cars[i].distance < 160 * DU}

\* the lane pass without the test of control_locked
LaneChanges_locked_too ==
    /\ state = "RACE" /\ pc = "lanes" /\ failure = ""
    /\ \E dirs \in [may_block(ai_cars) -> {-1, 1}] :
         ai_cars' = attempt_lane_changes(ai_cars, active_preset.lane_count, dirs, 1)
    /\ frame_trace' = Append(frame_trace, "lanes")
    /\ pc' = "draft"
    /\ UNCHANGED << state, active_preset, roster_vars, race_vars, frames, races, next_id,
                    pass_vars >>

\* lines 1460-1461
LaneChanges ==
    /\ state = "RACE" /\ pc = "lanes" /\ failure = ""
    /\ IF control_locked THEN UNCHANGED << ai_cars, frame_trace >>
       ELSE /\ \E dirs \in [may_block(ai_cars) -> {-1, 1}] :
                ai_cars' = attempt_lane_changes(ai_cars, active_preset.lane_count, dirs, 1)
            /\ frame_trace' = Append(frame_trace, "lanes")
    /\ pc' = "draft"
    /\ UNCHANGED << state, active_preset, roster_vars, race_vars, frames, races, next_id,
                    pass_vars >>

\* lines 1462-1463
Drafting ==
    /\ state = "RACE" /\ pc = "draft" /\ failure = ""
    /\ LET out == apply_drafting(ai_cars, player_lane_index)
       IN  /\ ai_cars' = out.cars
           /\ contact_boost_cache' = out.contact
           /\ draft_log' = out.log
    /\ pc' = "collide"
    /\ frame_trace' = Append(frame_trace, "draft")
    /\ UNCHANGED << state, active_preset, roster_vars, player_vars, player_speed_mph, draft_bonus,
                    frames, races, next_id, upd_snap, upd_log, crash_hits, hit_log >>

\* lines 1464-1468
Collisions ==
    /\ state = "RACE" /\ pc = "collide" /\ failure = ""
    /\ IF control_locked
       THEN /\ hit_log' = <<>>
            /\ UNCHANGED << ai_cars, player_speed_mph, crash_hits, frame_trace >>
       ELSE LET out == resolve_collisions(ai_cars, player_lane_index, sim_speed)
            IN  /\ ai_cars' = out.cars
                /\ frame_trace' = Append(frame_trace, "collide")
                /\ crash_hits' = out.hits
                /\ hit_log' = out.log
                /\ player_speed_mph' = IF out.mph_delta # 0
                                       THEN Max(0, player_speed_mph + out.mph_delta)
                                       ELSE player_speed_mph
    /\ pc' = "present"
    /\ UNCHANGED << state, active_preset, roster_vars, player_vars, draft_bonus, contact_boost_cache,
                    frames, races, next_id, upd_snap, upd_log, draft_log >>

\* lines 1491-1494: the draft intensity of the frame, and the frame is over
Present ==
    /\ state = "RACE" /\ pc = "present" /\ failure = ""
    /\ draft_bonus' = compute_draft_intensity(ai_cars, player_lane_index, 1)
    /\ frames' = Min(frames + 1, MaxFrames)
    /\ pc' = "input"
    /\ UNCHANGED << state, active_preset, roster_vars, ai_cars, player_vars, player_speed_mph,
                    contact_boost_cache, races, next_id, pass_vars, frame_trace >>

\* ======================================================= a race under way
\* Fields of a race some frames after the green flag.  Frame times have no
\* upper bound, recycled cars come back at random distances and the draft
\* adds to a car's speed every frame, so cars of any state meet at any gap
\* and closing speed; the fields below are put together from such cars.
FieldMph == CONTROLLED_BASE_MPH * MU
FieldSim == (FieldMph * SPEED_SCALE_X10 * SU) \div (10 * MU)

\* a car at distance (units) whose speed is rel_speed (units/s) above the
\* controlled car's; lane_timer is what is left of its lane-change cooldown
field_car(lane, distance, rel_speed, car_state, timer, lane_timer) ==
    [id |-> 0, lane_index |-> lane, distance |-> distance * DU,
     speed |-> FieldSim + rel_speed * SU, aggression |-> 100,
     lane_change_timer |-> lane_timer, state |-> car_state, crash_timer |-> timer,
     driver |-> create_default_driver]

FieldMenu ==
    << field_car(0, -399, 150, "RUNNING", 0, 0),    \* about to fall out of range
       field_car(1, 5, 0, "RUNNING", 0, 0),         \* just ahead of the controlled car
       field_car(1, 20, 0, "RUNNING", 0, 0),        \* the next car of its lane
       field_car(0, 120, 0, "RUNNING", 0, 0),       \* a queue of lane 0: two cars
       field_car(0, 110, 100, "RUNNING", 0, 30),    \* have just moved in behind
       field_car(0, 100, 250, "RUNNING", 0, 30),    \* the first, closing fast
       field_car(0, -399, 150, "CRASHING", 60, 0),  \* falling out of range, spinning
       field_car(0, -399, 150, "CRASHING", 2, 0) >> \* the same, its timer running out

RECURSIVE field_of(_, _)
field_of(picked, id) ==
    IF picked = {} THEN <<>>
    ELSE LET k == Min2(picked)
         IN  <<[FieldMenu[k] EXCEPT !.id = id]>> \o field_of(picked \ {k}, id + 1)

Fields ==
    {field_of(picked, 1) :
        picked \in {m \in SUBSET (1..Len(FieldMenu)) : Cardinality(m) = SnapshotCars}}

\* the frame variables of a race under way with this field; the controlled
\* car runs in lane 1 of the quick-race track at its base speed
field_state(cars) ==
    /\ state = "RACE"
    /\ driver_library = load_roster(LoadedRoster)
    /\ failure = ""
    /\ active_preset = quick_race_preset
    /\ ai_cars = cars
    /\ rolling_timer = 0
    /\ control_locked = FALSE
    /\ player_lane_target = 1
    /\ player_lane_value = LU
    /\ player_lane_index = 1
    /\ lane_cooldown = 0
    /\ player_speed_mph = FieldMph
    /\ target_mph = FieldMph
    /\ sim_speed = FieldSim
    /\ draft_bonus = compute_draft_intensity(cars, 1, 1)
    /\ contact_boost_cache = Min(contact_sum(cars, 1, 1), 50 * KU)
    /\ total_distance = (LAP_DISTANCE * DU) \div 2
    /\ current_lap = 1
    /\ delta = Min2(DtSet)
    /\ keys = {}
    /\ pc = "input"
    /\ frames = 0
    /\ races = 1
    /\ next_id = Len(cars) + 1
    /\ upd_snap = <<>>
    /\ upd_log = <<>>
    /\ crash_hits = {}
    /\ draft_log = <<>>
    /\ hit_log = <<>>
    /\ frame_trace = <<>>

FieldInit == \E cars \in Fields : field_state(cars)

Init == TitleInit \/ FieldInit

Next ==
    \/ StartFromTitle
    \/ OpenMenu
    \/ StartFromMenu
    \/ EscapeToMenu
    \/ PlayerStep
    \/ UpdateCars
    \/ LaneChanges
    \/ Drafting
    \/ Collisions
    \/ Present

Spec == Init /\ [][Next]_vars

\* ================================== contact with the controlled car
\* The races of Spec, and races under way in which the controlled car has
\* run up behind slower cars of its lane: one it bumps, one it wrecks, or
\* both at once; and races in which a car that has been spinning for 0.6 s
\* is run into again, by a car of its lane or by the controlled car.
SlowCars ==
    { << [field_car(1, 8, -50, "RUNNING", 0, 0) EXCEPT !.id = 1],
         [field_car(0, 40, 0, "RUNNING", 0, 0) EXCEPT !.id = 2] >>,
      << [field_car(1, 8, -100, "RUNNING", 0, 0) EXCEPT !.id = 1],
         [field_car(0, 40, 0, "RUNNING", 0, 0) EXCEPT !.id = 2] >>,
      << [field_car(1, 6, -50, "RUNNING", 0, 0) EXCEPT !.id = 1],
         [field_car(1, 12, -100, "RUNNING", 0, 0) EXCEPT !.id = 2] >>,
      << [field_car(0, 100, -100, "CRASHING", 60, 0) EXCEPT !.id = 1],
         [field_car(0, 95, 50, "RUNNING", 0, 30) EXCEPT !.id = 2] >>,
      << [field_car(1, 8, -100, "CRASHING", 60, 0) EXCEPT !.id = 1],
         [field_car(0, 40, 0, "RUNNING", 0, 0) EXCEPT !.id = 2] >> }

ContactInit == Init \/ \E cars \in SlowCars : field_state(cars)

ContactSpec == ContactInit /\ [][Next]_vars

\* ============================================== wrecks, frame after frame
\* Frames without end: every frame takes the same, long, time and the brake
\* is held, so that the lap distance comes round after a few laps.  The
\* field is a spinning car, a wreck, or both.
SteadyDt == {Max2(DtSet)}
SteadyKeys == {{"DOWN"}}

Wrecks ==
    { << [field_car(0, 0, -100, "CRASHING", 4, 0) EXCEPT !.id = 1] >>,
      << [field_car(0, 100, -140, "DISABLED", 0, 0) EXCEPT !.id = 1] >>,
      << [field_car(0, 0, -100, "CRASHING", 4, 0) EXCEPT !.id = 1],
         [field_car(1, 100, -140, "DISABLED", 0, 0) EXCEPT !.id = 2] >> }

WreckInit == \E cars \in Wrecks : field_state(cars)

SteadyStep == player_step(SteadyDt, SteadyKeys)

WreckNext ==
    \/ SteadyStep
    \/ UpdateCars
    \/ LaneChanges
    \/ Drafting
    \/ Collisions
    \/ Present

\* the main loop runs a frame after a frame for as long as the race goes on
WreckSpec == WreckInit /\ [][WreckNext]_vars /\ WF_vars(WreckNext)

\* ============================================ pairs of cars, pass by pass
\* apply_drafting and resolve_collisions on given fields: a lead car and a
\* trailing car of lane 0 at a given gap and closing speed, alone or with a
\* second pair in lane 1, a queue of three, and a pair around the position
\* of the controlled car.  The lead runs at the reference speed.  A behaviour starts at one of the two passes and goes
\* on with the frames of the race.
PairGaps == {0, 13, 14, 20, 28, 60, 159, 160}           \* units
PairRels == {0, 1, 3000, 5000, 9120, 9121, 15000}       \* 1/SU units per second
PairRefs == {0, CONTROLLED_BASE_MPH * MU}               \* the controlled car's mph
PairStarts == {"draft", "collide"}

sim_of(mph) == (mph * SPEED_SCALE_X10 * SU) \div (10 * MU)

pair_car(id, lane, distance, speed) ==
    [id |-> id, lane_index |-> lane, distance |-> distance, speed |-> speed,
     aggression |-> 100, lane_change_timer |-> 0, state |-> "RUNNING",
     crash_timer |-> 0, driver |-> create_default_driver]

pair_of(lane, gap, rel, ref, first_id) ==
    << pair_car(first_id, lane, 100 * DU, ref),
       pair_car(first_id + 1, lane, (100 - gap) * DU, ref + rel) >>

PairFields(ref) ==
    {pair_of(0, gap, rel, ref, 1) : gap \in PairGaps, rel \in PairRels}
    \cup {pair_of(0, g1, rel, ref, 1) \o pair_of(1, g2, 0, ref, 3) :
              g1 \in PairGaps, g2 \in PairGaps, rel \in {0, 3000}}
    \cup {<< pair_car(1, 0, 100 * DU, ref), pair_car(2, 0, 99 * DU, ref),
             pair_car(3, 0, 90 * DU, ref) >>}
    \cup {<< pair_car(1, 0, 10 * DU, ref), pair_car(2, 0, -4 * DU, ref + rel) >> :
              rel \in {0, 15000}}

\* the frame variables when the pass at is about to run on this field
pair_state(cars, mph, lane, at) ==
    /\ state = "RACE"
    /\ driver_library = load_roster(LoadedRoster)
    /\ failure = ""
    /\ active_preset = quick_race_preset
    /\ ai_cars = cars
    /\ rolling_timer = 0
    /\ control_locked = FALSE
    /\ player_lane_target = lane
    /\ player_lane_value = lane * LU
    /\ player_lane_index = lane
    /\ lane_cooldown = 0
    /\ player_speed_mph = mph
    /\ target_mph = mph
    /\ sim_speed = sim_of(mph)
    /\ draft_bonus = compute_draft_intensity(cars, lane, 1)
    /\ contact_boost_cache = Min(contact_sum(cars, lane, 1), 50 * KU)
    /\ total_distance = (LAP_DISTANCE * DU) \div 2
    /\ current_lap = 1
    /\ delta = Min2(DtSet)
    /\ keys = {}
    /\ pc = at
    /\ frames = 0
    /\ races = 1
    /\ next_id = Len(cars) + 1
    /\ upd_snap = <<>>
    /\ upd_log = <<>>
    /\ crash_hits = {}
    /\ draft_log = <<>>
    /\ hit_log = <<>>
    /\ frame_trace = <<>>

PairInit ==
    \E mph \in PairRefs, lane \in {0, 1}, at \in PairStarts :
        \E cars \in PairFields(sim_of(mph)) : pair_state(cars, mph, lane, at)

PairStep == frames < MaxFrames /\ player_step({Min2(DtSet)}, {{}})

PairNext ==
    \/ PairStep
    \/ UpdateCars
    \/ LaneChanges
    \/ Drafting
    \/ Collisions
    \/ Present

PairSpec == PairInit /\ [][PairNext]_vars


\* =========================================== the rolling start of a race
\* A quick race as start_quick_race leaves it, on cells of the full grid of
\* 22 rows: rows 0 and 15 lie more than 48 behind the row of the controlled
\* car (row 18 of lane 0), the others within 48 of it.  The frames take
\* 0.02 s, 1 s or 5 s; the last one ends the rolling start at once.
RollDt == {2, 100, 500}

\* the car build_two_wide_pack puts on a cell of the grid
roll_car(lane, row, draw) ==
    LET row_spacing == Max(Max((COLLISION_GAP + 1) * DU, 6 * DU), QUICK_RACE_ROW_GAP * DU)
        jitter_scale == (row_spacing * QUICK_RACE_ROW_JITTER_X100) \div 100
    IN  Car(0, lane,
            (row - QUICK_RACE_PLAYER_ROW) * row_spacing
                + uniform(-jitter_scale, jitter_scale, draw.pos),
            aggression_of(draw), create_default_driver)

RollMenu ==
    << roll_car(0, 0, [pos |-> 0, aggr |-> 0]),
       roll_car(1, 0, [pos |-> UMAX, aggr |-> UMAX]),
       roll_car(0, 15, [pos |-> 0, aggr |-> 0]),
       roll_car(1, 15, [pos |-> UMAX, aggr |-> UMAX]),
       roll_car(1, 18, [pos |-> UMAX, aggr |-> UMAX]),
       roll_car(0, 21, [pos |-> 0, aggr |-> 0]) >>

RECURSIVE roll_field(_, _)
roll_field(picked, id) ==
    IF picked = {} THEN <<>>
    ELSE LET k == Min2(picked)
         IN  <<[RollMenu[k] EXCEPT !.id = id]>> \o roll_field(picked \ {k}, id + 1)

RollFields ==
    {roll_field(picked, 1) :
        picked \in {m \in SUBSET (1..Len(RollMenu)) : Cardinality(m) = SnapshotCars}}

\* the nonlocals after start_quick_race on the title screen
roll_state(cars) ==
    /\ state = "RACE"
    /\ driver_library = load_roster(LoadedRoster)
    /\ failure = ""
    /\ active_preset = quick_race_preset
    /\ ai_cars = cars
    /\ rolling_timer = ROLLING_DURATION
    /\ control_locked = FALSE
    /\ player_lane_target = QUICK_RACE_PLAYER_LANE
    /\ player_lane_value = QUICK_RACE_PLAYER_LANE * LU
    /\ player_lane_index = TRACK_PRESETS[1].lane_count \div 2
    /\ lane_cooldown = 0
    /\ player_speed_mph = 0
    /\ target_mph = 0
    /\ sim_speed = 0
    /\ draft_bonus = 0
    /\ contact_boost_cache = 0
    /\ total_distance = 0
    /\ current_lap = 1
    /\ delta = 0
    /\ keys = {}
    /\ pc = "input"
    /\ frames = 0
    /\ races = 1
    /\ next_id = Len(cars) + 1
    /\ upd_snap = <<>>
    /\ upd_log = <<>>
    /\ crash_hits = {}
    /\ draft_log = <<>>
    /\ hit_log = <<>>
    /\ frame_trace = <<>>

RollInit == \E cars \in RollFields : roll_state(cars)

RollStep == frames < MaxFrames /\ player_step(RollDt, {{}})

RollNext ==
    \/ RollStep
    \/ UpdateCars
    \/ LaneChanges
    \/ Drafting
    \/ Collisions
    \/ Present

RollSpec == RollInit /\ [][RollNext]_vars


\* ================================================ the packs of a race
\* start_quick_race on the title screen, for presets of several sizes and
\* rosters of up to four drivers.  GridStart is the quick race, whose
\* field build_two_wide_pack makes; TrackStart is a race on a preset of the
\* table, whose field spawn_pack makes.
Rosters == {<<>>, <<"3">>, <<"3", "24">>, <<"3", "24", "48">>, <<"3", "24", "48", "88">>}

full_quick_race_preset ==
    sized(quick_race_preset, QUICK_RACE_PACK_ROWS, DEFAULT_FIELD_SIZE)

GridRows == {1, 2, 3, QUICK_RACE_PACK_ROWS}
GridSizes == {0, 2, 3, 5, DEFAULT_FIELD_SIZE}
GridPresets == {sized(quick_race_preset, rows, size) : rows \in GridRows, size \in GridSizes}

\* the presets of the table, and those without a field size cut to a row
\* or two
SpawnRows == {1, 2}
SpawnPresets ==
    {FULL_TRACK_PRESETS[k] : k \in 1..Len(FULL_TRACK_PRESETS)}
    \cup {sized(TRACK_PRESETS[k], rows, 0) : k \in 2..Len(TRACK_PRESETS), rows \in SpawnRows}

\* the draws of the n cars of a pack of this many columns: every car the
\* low draw, every car the high draw, or low and high draws row by row
DrawPhases == 0..3
draw_pattern(n, columns, phase) ==
    [k \in 1..n |->
        LET row == (k - 1) \div columns
            high == \/ phase = 1
                    \/ phase = 2 /\ row % 2 = 0
                    \/ phase = 3 /\ row % 2 = 1
        IN  [pos |-> IF high THEN UMAX ELSE 0, aggr |-> IF high THEN UMAX ELSE 0]]

\* the nonlocals as start_quick_race leaves them with this field
pack_started(preset, cars, lane) ==
    /\ ai_cars' = cars
    /\ active_preset' = preset
    /\ player_lane_target' = lane
    /\ player_lane_value' = lane * LU
    /\ next_id' = Len(cars) + 1
    /\ race_reset

\* lines 1301-1312: the quick race
GridStart ==
    /\ state = "TITLE" /\ failure = ""
    /\ \E preset \in GridPresets, phase \in DrawPhases,
          order \in Orders(Len(driver_pool(driver_library))) :
          LET lane == clamp(QUICK_RACE_PLAYER_LANE, 0, preset.lane_count - 1)
              row == clamp(QUICK_RACE_PLAYER_ROW, 0, preset.pack_rows - 1)
              n == Len(two_wide_grid(preset, lane, row))
          IN  pack_started(preset,
                           build_two_wide_pack(preset, driver_library, order,
                                               draw_pattern(n, 2, phase), lane, row,
                                               preset.row_gap * DU, 1),
                           lane)

\* lines 1299, 1313-1314: a race on a preset of the table
TrackStart ==
    /\ state = "TITLE" /\ failure = ""
    /\ \E preset \in SpawnPresets, phase \in DrawPhases,
          order \in Orders(Len(driver_pool(driver_library))) :
          pack_started(preset,
                       spawn_pack(preset, driver_library, order,
                                  draw_pattern(spawn_count(preset),
                                               Len(spawn_lanes(preset)), phase), 1),
                       preset.lane_count \div 2)

PackInit == \E loaded \in Rosters : title_state(loaded)

PackNext ==
    \/ GridStart
    \/ TrackStart

PackSpec == PackInit /\ [][PackNext]_vars


\* ================================================================ properties
\* the (ahead, behind) pairs of the list positions that are next to each
\* other in a lane sorted by distance, descending
lane_pairs(cars) ==
    UNION {{<<sorted_lane(cars, lane)[i], sorted_lane(cars, lane)[i + 1]>> :
                i \in 1..(Len(sorted_lane(cars, lane)) - 1)} :
           lane \in lanes_of(cars)}

both_running(cars, pair) ==
    cars[pair[1]].state = "RUNNING" /\ cars[pair[2]].state = "RUNNING"

gap_of(cars, pair) == cars[pair[1]].distance - cars[pair[2]].distance

\* the resolver has just run with the controls unlocked
resolved == state = "RACE" /\ pc = "present" /\ ~control_locked

\* the update pass has just run
updated == state = "RACE" /\ pc = "lanes"

log_entries == {upd_log[k] : k \in 1..Len(upd_log)}

\* C1: after resolve_collisions has run with the controls unlocked, every two
\* RUNNING cars that are next to each other in a lane sorted by distance are
\* at least COLLISION_GAP apart, the controlled car's lane included.
C1_GapAfterResolver ==
    resolved =>
        \A pair \in lane_pairs(ai_cars) :
            both_running(ai_cars, pair) => gap_of(ai_cars, pair) >= COLLISION_GAP * DU

\* C2: every pair of RUNNING cars that enters resolve_collisions next to each
\* other in a lane, not more than COLLISION_GAP apart and closing faster than
\* CRASH_REL_UNITS, leaves it with both cars CRASHING and a positive
\* crash_timer; nothing later in the frame touches the cars.
C2_CrashBoth ==
    [][(state = "RACE" /\ pc = "collide" /\ ~control_locked /\ pc' = "present") =>
          \A pair \in lane_pairs(ai_cars) :
              crash_condition(ai_cars, pair[1], pair[2]) =>
                  \A k \in {pair[1], pair[2]} :
                      ai_cars'[k].state = "CRASHING" /\ ai_cars'[k].crash_timer > 0]_vars

\* C3: a Car.update call on a CRASHING car that leaves the decremented
\* crash_timer at or below zero returns with the car DISABLED.
C3_ExpiredIsDisabled ==
    \A e \in log_entries :
        (e.was = "CRASHING" /\ e.car.crash_timer <= 0) => e.car.state = "DISABLED"

C3_Witness ==
    /\ updated
    /\ \E e \in log_entries :
          e.was = "CRASHING" /\ e.car.crash_timer = 0 /\ e.car.state = "DISABLED"
    /\ \E e \in log_entries :
          e.was = "CRASHING" /\ e.car.crash_timer > 0 /\ e.car.state = "CRASHING"

\* C4, as stated: Car.update never signals the exit of a car that is still
\* CRASHING when the call returns, and never signals the exit of a car in the
\* call that switches it from CRASHING to DISABLED.
C4_NoExitOutOfCrash ==
    \A e \in log_entries :
        /\ e.car.state = "CRASHING" => ~e.exit
        /\ (e.was = "CRASHING" /\ e.car.state = "DISABLED") => ~e.exit

\* C4, amended: Car.update signals the exit of a car exactly when its distance
\* after the call is below -400, whatever the state of the car, a CRASHING
\* car and one the call has just switched to DISABLED included; the pass
\* removes the cars so signalled and no other, so a timer that runs out never
\* removes a car by itself.
C4_ExitByDistanceAlone ==
    updated =>
        \A e \in log_entries :
            /\ e.exit <=> e.car.distance < -(400 * DU)
            /\ e.exit <=> ~(\E k \in 1..Len(ai_cars) : ai_cars[k].id = e.id)
            /\ ~e.exit => \E k \in 1..Len(ai_cars) : ai_cars[k] = e.car

C4_Witness ==
    /\ updated
    /\ \E e \in log_entries : e.exit /\ e.car.state = "CRASHING"
    /\ \E e \in log_entries :
          e.exit /\ e.was = "CRASHING" /\ e.car.state = "DISABLED"

\* the state of the car with this id, "" when it is not in the field
state_of(cars, id) ==
    IF \E k \in 1..Len(cars) : cars[k].id = id
    THEN cars[CHOOSE k \in 1..Len(cars) : cars[k].id = id].state
    ELSE ""

\* C5: in a race the state of a car changes only from RUNNING to CRASHING,
\* in resolve_collisions, and from CRASHING to DISABLED, in Car.update; the
\* cars that come into the field come as new RUNNING cars of the update pass.
C5_Monotone ==
    [][(state = "RACE" /\ races' = races) =>
          \A k \in 1..Len(ai_cars') :
              LET was == state_of(ai_cars, ai_cars'[k].id)
                  now == ai_cars'[k].state
              IN  \/ was = now
                  \/ was = "RUNNING" /\ now = "CRASHING" /\ pc = "collide"
                  \/ was = "CRASHING" /\ now = "DISABLED" /\ pc = "update"
                  \/ /\ was = "" /\ now = "RUNNING" /\ pc = "update"
                     /\ ai_cars'[k].id >= next_id]_vars

C5_Witness ==
    /\ updated
    /\ \E e \in log_entries :
          e.id \in crash_hits /\ e.was = "CRASHING" /\ e.car.state = "DISABLED"
    /\ \E k \in 1..Len(ai_cars) : ai_cars[k].state = "DISABLED" /\ ai_cars[k].id \in crash_hits

\* the ids of the cars of a field
ids_of(cars) == {cars[k].id : k \in 1..Len(cars)}

\* C6: with frames of positive length following one another, a car that is
\* DISABLED is in the end out of the field: its distance falls below -400
\* and the update pass removes it.
C6_DisabledLeaves ==
    \A id \in 1..SnapshotCars :
        (state_of(ai_cars, id) = "DISABLED") ~> (id \notin ids_of(ai_cars))

\* C7: an update pass calls Car.update once on each car that is in the field
\* when the pass starts, in list order, and on no other car; a car whose
\* call returns true is out of the field after the pass, the others are in
\* it; the cars that come in are new cars, which the pass has not updated
\* and whose ids no car had before; between two passes no car comes or goes.
C7_OncePerFrame ==
    [][(state = "RACE" /\ races' = races) =>
          IF pc = "update"
          THEN /\ [k \in 1..Len(upd_log') |-> upd_log'[k].id]
                    = [k \in 1..Len(ai_cars) |-> ai_cars[k].id]
               /\ \A k \in 1..Len(upd_log') :
                      upd_log'[k].exit <=> upd_log'[k].id \notin ids_of(ai_cars')
               /\ \A k \in 1..Len(ai_cars') :
                      ai_cars'[k].id \notin ids_of(ai_cars) =>
                          /\ ai_cars'[k].id >= next_id
                          /\ ai_cars'[k].speed = 0
                          /\ ai_cars'[k].distance >= RECYCLE_MIN * DU
          ELSE ids_of(ai_cars') = ids_of(ai_cars) /\ upd_log' = upd_log]_vars

C7_Witness ==
    /\ updated
    /\ Len(upd_log) = SnapshotCars
    /\ \E k \in 1..(Len(upd_log) - 1) : upd_log[k].exit /\ ~upd_log[k + 1].exit
    /\ ai_cars[Len(ai_cars)].id = next_id - 1
    /\ ai_cars[Len(ai_cars)].id \notin {upd_log[k].id : k \in 1..Len(upd_log)}

\* the number of Car.update calls of the last pass that returned true
exits_of(log) == Cardinality({k \in 1..Len(log) : log[k].exit})

\* C8: in a race no step changes the number of cars of the field: the update
\* pass puts one new RUNNING car in for every car it takes out, and lane
\* changes, drafting and collision resolution neither add nor remove a car.
C8_FieldSizeKept ==
    [][(state = "RACE" /\ races' = races) =>
          /\ Len(ai_cars') = Len(ai_cars)
          /\ pc = "update" =>
                /\ Cardinality(ids_of(ai_cars') \ ids_of(ai_cars)) = exits_of(upd_log')
                /\ \A k \in 1..Len(ai_cars') :
                      ai_cars'[k].id \notin ids_of(ai_cars) => ai_cars'[k].state = "RUNNING"
          /\ pc # "update" => ids_of(ai_cars') = ids_of(ai_cars)]_vars

C8_Witness ==
    /\ state = "RACE" /\ pc = "input"
    /\ exits_of(upd_log) >= 2
    /\ Len(ai_cars) = SnapshotCars
    /\ next_id > SnapshotCars + 1

\* C9: in a race every car's lane_index is a lane of the active preset, and
\* so are the controlled car's lane target and, in a frame, the lane index
\* derived from its lane value.
C9_LanesInRange ==
    state = "RACE" =>
        /\ \A k \in 1..Len(ai_cars) :
              ai_cars[k].lane_index \in 0..(active_preset.lane_count - 1)
        /\ player_lane_target \in 0..(active_preset.lane_count - 1)
        /\ pc # "input" => player_lane_index \in 0..(active_preset.lane_count - 1)

C9_Witness ==
    /\ state = "RACE" /\ pc = "draft"
    /\ \E k \in 1..Len(ai_cars) :
          /\ ai_cars[k].lane_change_timer = AI_LANE_COOLDOWN
          /\ ai_cars[k].lane_index = 0
    /\ \E k \in 1..Len(ai_cars) :
          ai_cars[k].id > SnapshotCars /\ ai_cars[k].lane_index = 1
    /\ player_lane_target = 0

\* the lane a held key asks for, when exactly one of the two keys is held
asked_lane(target, held) ==
    IF "LEFT" \in held THEN target - 1 ELSE target + 1

\* the test of the claim: an AI car of the lane within the safety distance
\* of the controlled car
car_within(cars, lane) ==
    \E k \in 1..Len(cars) :
        cars[k].lane_index = lane /\ Abs(cars[k].distance) < LANE_SAFETY_DISTANCE * DU

\* a frame's player step with the controls unlocked
unlocked_step == state = "RACE" /\ pc = "input" /\ pc' = "update" /\ ~control_locked'

\* C10, as stated: with the controls unlocked and the left or the right key
\* held, the request for the lane next to the target is denied when an AI
\* car of that lane is within the safety distance, and accepted otherwise:
\* the target moves to that lane and the cooldown starts.
C10_AcceptedOtherwise ==
    [][(/\ unlocked_step
        /\ keys' \in {{"LEFT"}, {"RIGHT"}}
        /\ asked_lane(player_lane_target, keys') \in 0..(active_preset.lane_count - 1)) =>
          IF car_within(ai_cars, asked_lane(player_lane_target, keys'))
          THEN player_lane_target' = player_lane_target
          ELSE /\ player_lane_target' = asked_lane(player_lane_target, keys')
               /\ lane_cooldown' = LANE_CHANGE_COOLDOWN]_vars

\* C10, amended: the request counts only once the cooldown of the last
\* accepted change has run out, the left key goes before the right one, and
\* a request out of the outermost lane is none.  Such a request is denied
\* when an AI car of the lane asked for, in whatever state, is less than the
\* safety distance from the controlled car, and accepted otherwise: the
\* target moves by one lane and the cooldown starts.  In every other case
\* the target stays and the cooldown runs on.
C10_AcceptedAfterCooldown ==
    [][unlocked_step =>
          LET cooldown == Max(0, lane_cooldown - delta')
              asked == IF "LEFT" \in keys' THEN player_lane_target - 1
                       ELSE IF "RIGHT" \in keys' THEN player_lane_target + 1
                       ELSE player_lane_target
          IN  IF /\ cooldown = 0
                 /\ asked # player_lane_target
                 /\ asked \in 0..(active_preset.lane_count - 1)
                 /\ ~car_within(ai_cars, asked)
              THEN /\ player_lane_target' = asked
                   /\ lane_cooldown' = LANE_CHANGE_COOLDOWN
              ELSE /\ player_lane_target' = player_lane_target
                   /\ lane_cooldown' = cooldown]_vars

C10_Witness ==
    /\ state = "RACE" /\ pc = "update" /\ ~control_locked
    /\ keys = {"LEFT"}
    /\ player_lane_target = 0
    /\ lane_cooldown = LANE_CHANGE_COOLDOWN
    /\ \E k \in 1..Len(ai_cars) :
          ai_cars[k].lane_index = 0 /\ ai_cars[k].distance = LANE_SAFETY_DISTANCE * DU

\* a frame's player step, lines 1407-1454
frame_step == state = "RACE" /\ pc = "input" /\ pc' = "update"

\* C11: in the first frame of a rolling start the controlled car's target
\* speed is ROLLING_START_MIN_MPH; in the frame in which the rolling timer
\* runs out it is ROLLING_START_MAX_MPH, from the ramp, the controls still
\* locked; the controls are unlocked in the frame after that one.
C11_RollingRamp ==
    [][frame_step =>
          /\ rolling_timer = ROLLING_DURATION =>
                target_mph' = ROLLING_START_MIN_MPH * MU
          /\ (rolling_timer > 0 /\ rolling_timer' = 0) =>
                /\ control_locked'
                /\ target_mph' = ROLLING_START_MAX_MPH * MU
          /\ (rolling_timer = 0 /\ control_locked) => ~control_locked']_vars

\* C12: in a race the rolling timer never goes up, and once a frame of the
\* race has found the controls unlocked every later step of that race finds
\* them unlocked; the timer goes up, and the controls lock again, only with
\* a call of start_quick_race and the first frame that follows it.
C12_OneWay ==
    [][/\ (state = "RACE" /\ state' = "RACE") =>
             /\ rolling_timer' <= rolling_timer
             /\ (rolling_timer < ROLLING_DURATION /\ ~control_locked) => ~control_locked'
       /\ rolling_timer' > rolling_timer =>
             state # "RACE" /\ state' = "RACE" /\ rolling_timer' = ROLLING_DURATION
       /\ (~control_locked /\ control_locked') =>
             frame_step /\ rolling_timer = ROLLING_DURATION]_vars

\* a race started from the menu: a frame that unlocked the controls has run
\* and the player step of the next frame has found them unlocked
C12_Witness ==
    /\ state = "RACE" /\ pc = "update" /\ frames = 1
    /\ active_preset = TRACK_PRESETS[2]
    /\ rolling_timer = 0 /\ ~control_locked
    /\ upd_log # <<>>
\* the car with this id
car_of(cars, id) == cars[CHOOSE k \in 1..Len(cars) : cars[k].id = id]

\* the scenario of a single pair: apply_drafting, then resolve_collisions,
\* have run on a lead car at distance 100 with speed 0 and a trailing car of
\* its lane at distance 40 with speed 50, the reference speed being 0
scenario_gap60 ==
    /\ state = "RACE" /\ pc = "present" /\ frames = 0
    /\ active_preset.lane_count = 2 /\ sim_speed = 0
    /\ Len(ai_cars) = 2 /\ Len(draft_log) = 1
    /\ draft_log[1].lead = pair_car(1, 0, 100 * DU, 0)
    /\ draft_log[1].trail = pair_car(2, 0, 40 * DU, 50 * SU)

\* C13, as stated: in that scenario the lead car's speed goes up by a share
\* of the slipstream boost, no distance changes and both cars stay RUNNING.
C13_LeadBoosted ==
    scenario_gap60 =>
        /\ car_of(ai_cars, 1).speed > draft_log[1].lead.speed
        /\ car_of(ai_cars, 1).distance = 100 * DU
        /\ car_of(ai_cars, 2).distance = 40 * DU
        /\ car_of(ai_cars, 1).state = "RUNNING"
        /\ car_of(ai_cars, 2).state = "RUNNING"

\* C13, amended: in that scenario the trailing car's speed goes up by the
\* slipstream boost 28 * (1 - 60/160) = 17.5, and by the contact addend
\* 28 * (42 - 40)/42 = 1.33 on top when the pair runs in the controlled
\* car's lane; the lead car's speed stays 0; no distance changes, the
\* resolver leaves the pair alone and both cars stay RUNNING.
C13_TrailBoosted ==
    scenario_gap60 =>
        /\ car_of(ai_cars, 1).speed = 0
        /\ car_of(ai_cars, 2).speed =
              50 * SU + 1750 + (IF player_lane_index = 0 THEN 133 ELSE 0)
        /\ car_of(ai_cars, 1).distance = 100 * DU
        /\ car_of(ai_cars, 2).distance = 40 * DU
        /\ car_of(ai_cars, 1).state = "RUNNING"
        /\ car_of(ai_cars, 2).state = "RUNNING"
        /\ Len(hit_log) = 1
        /\ hit_log[1].lead_out = hit_log[1].lead
        /\ hit_log[1].trail_out = hit_log[1].trail

C13_Witness == scenario_gap60 /\ player_lane_index = 0 /\ Len(hit_log) = 1
\* the scenario of a pair in contact: resolve_collisions has run on a lead
\* car at distance 100 and a trailing car of its lane 13 behind it
\* (COLLISION_GAP - 1), the lead at the reference speed
scenario_gap13 ==
    /\ state = "RACE" /\ pc = "present" /\ frames = 0
    /\ Len(ai_cars) = 2 /\ draft_log = <<>> /\ Len(hit_log) = 1
    /\ hit_log[1].lead = pair_car(1, 0, 100 * DU, sim_speed)
    /\ hit_log[1].trail.distance = (100 - (COLLISION_GAP - 1)) * DU
    /\ hit_log[1].trail.state = "RUNNING"

\* the closing speed the resolver found in that scenario
scenario_rel == hit_log[1].trail.speed - hit_log[1].lead.speed

\* C14, as stated: with the trailing car 30 units per second faster than
\* the lead, both cars are CRASHING after resolve_collisions and the
\* trailing car is COLLISION_GAP behind the lead.
C14_BothCrashing ==
    (scenario_gap13 /\ scenario_rel = 30 * SU) =>
        /\ car_of(ai_cars, 1).state = "CRASHING"
        /\ car_of(ai_cars, 2).state = "CRASHING"
        /\ car_of(ai_cars, 2).distance = car_of(ai_cars, 1).distance - COLLISION_GAP * DU

\* C14, amended: a closing speed of 30 is below CRASH_REL_UNITS = 24 * 3.8,
\* about 91.2, so the resolver bumps: both cars stay RUNNING, the lead gains
\* 30 * 0.45 * 0.65 = 8.77, the trailing car loses 30 * 0.45 * 0.35 = 4.72.
\* Both cars are CRASHING with crash_timer 1.2, their speeds kept, when the
\* closing speed is above 91.2, and RUNNING when it is below.  In both
\* cases the lead keeps its distance and the trailing car is COLLISION_GAP
\* behind it.
C14_CrashAboveThreshold ==
    scenario_gap13 =>
        LET lead == car_of(ai_cars, 1)
            trail == car_of(ai_cars, 2)
        IN  /\ lead.distance = 100 * DU
            /\ trail.distance = lead.distance - COLLISION_GAP * DU
            /\ scenario_rel = 30 * SU =>
                  /\ lead.state = "RUNNING" /\ trail.state = "RUNNING"
                  /\ lead.crash_timer = 0 /\ trail.crash_timer = 0
                  /\ lead.speed = hit_log[1].lead.speed + 877
                  /\ trail.speed = hit_log[1].trail.speed - 472
            /\ scenario_rel > 9120 =>
                  /\ lead.state = "CRASHING" /\ trail.state = "CRASHING"
                  /\ lead.crash_timer = CRASH_TIME /\ trail.crash_timer = CRASH_TIME
                  /\ lead.speed = hit_log[1].lead.speed
                  /\ trail.speed = hit_log[1].trail.speed
            /\ scenario_rel < 9120 =>
                  lead.state = "RUNNING" /\ trail.state = "RUNNING"

C14_Witness ==
    /\ scenario_gap13 /\ scenario_rel = 30 * SU
    /\ car_of(ai_cars, 2).state = "RUNNING"
    /\ car_of(ai_cars, 2).distance = 86 * DU
\* the pairs of the last apply_drafting walk and the gap each was found at
draft_entries == {draft_log[k] : k \in 1..Len(draft_log)}
entry_gap(e) == e.lead.distance - e.trail.distance

\* C15: the slipstream addend apply_drafting gives the trailing car of a
\* pair is between 0 and the full bonus 28, it is 0 when the gap is 160 or
\* more, and of two pairs with gaps in (0, 160) the one with the smaller
\* gap gets at least as much; the trailing car's speed goes up by the
\* addend, and by nothing else when the gap is 28 or more.
C15_SlipstreamMonotone ==
    /\ \A e \in draft_entries :
          /\ 0 <= e.boost /\ e.boost <= 28 * SU
          /\ (0 < entry_gap(e) /\ entry_gap(e) < 160 * DU) => e.boost > 0
          /\ entry_gap(e) >= 160 * DU =>
                e.boost = 0 /\ e.trail_out.speed = e.trail.speed
          /\ e.trail_out.speed >= e.trail.speed + e.boost
          /\ entry_gap(e) >= 28 * DU => e.trail_out.speed = e.trail.speed + e.boost
    /\ \A e1 \in draft_entries, e2 \in draft_entries :
          (0 < entry_gap(e1) /\ entry_gap(e1) <= entry_gap(e2) /\ entry_gap(e2) < 160 * DU)
              => e1.boost >= e2.boost

\* two lanes, one pair each: gaps 13 and 60, and a pair at gap 160 or more
C15_Witness ==
    /\ state = "RACE" /\ pc = "collide" /\ Len(ai_cars) = 4 /\ Len(draft_log) = 2
    /\ \E e1 \in draft_entries, e2 \in draft_entries :
          /\ e1.lead.lane_index # e2.lead.lane_index
          /\ entry_gap(e1) = 13 * DU /\ entry_gap(e2) = 60 * DU
          /\ e1.boost > e2.boost /\ e2.boost > 0

\* C16: the roster loaded is empty.  The program never fails; the library the
\* race is cast from is the one synthetic default driver; the field of a
\* race is never empty and every car of it, of either pack builder or put in
\* by the update pass for a car taken out, is driven by the default driver.
C16_EmptyRosterServed ==
    /\ failure = ""
    /\ state = "RACE" =>
          /\ ai_cars # <<>>
          /\ \A k \in 1..Len(ai_cars) : ai_cars[k].driver = create_default_driver

\* the update pass has taken a car out and has cast the car it put in
C16_Witness ==
    /\ LoadedRoster = <<>> /\ updated
    /\ \E e \in log_entries : e.exit
    /\ \E k \in 1..Len(ai_cars) :
          /\ ai_cars[k].id \notin {upd_snap[j] : j \in 1..Len(upd_snap)}
          /\ ai_cars[k].driver = create_default_driver

\* ------------------------------------------------------- C17: frame order
\* the frame is over: all its stages have run
frame_over == state = "RACE" /\ pc = "present" /\ failure = ""

field_at(before, after, i) ==
    [k \in 1..Len(before) |-> IF k < i THEN after[k] ELSE before[k]]

\* car i of the pass has changed its lane within the rules
lane_change_ok(before, after, i, lane_count) ==
    LET car == before[i]
        new_lane == after[i].lane_index
        field == field_at(before, after, i)
    IN  /\ car.lane_change_timer = 0
        /\ \E k \in 1..Len(field) :
              /\ k # i
              /\ field[k].lane_index = car.lane_index
              /\ field[k].distance > car.distance
              /\ field[k].distance - car.distance < 160 * DU
        /\ new_lane \in {car.lane_index - 1, car.lane_index + 1}
        /\ 0 <= new_lane /\ new_lane < lane_count
        /\ \A k \in 1..Len(field) :
              k # i /\ field[k].lane_index = new_lane
                  => Abs(field[k].distance - car.distance) >= 170 * DU
        /\ after[i] = [car EXCEPT !.lane_index = new_lane, !.lane_change_timer = 60]

\* C18: in a pass of attempt_lane_changes a car changes its lane only with
\* lane_change_timer 0, a car of its lane strictly ahead by less than 160,
\* an adjacent target lane of the track and no car of the target lane
\* within 170 of it, on the lanes as the cars before it left them; then
\* lane_index is the new lane and lane_change_timer 0.6; a car changes at
\* most once in a pass and every other car is as it was; a locked frame
\* has no pass.
C18_LaneChangeRules ==
    [][state = "RACE" /\ pc = "lanes" /\ pc' = "draft"
        => /\ Len(ai_cars') = Len(ai_cars)
           /\ control_locked => ai_cars' = ai_cars
           /\ \A i \in 1..Len(ai_cars) :
                 \/ ai_cars'[i] = ai_cars[i]
                 \/ lane_change_ok(ai_cars, ai_cars', i, active_preset.lane_count)]_vars

\* a pass is over in which a car has changed its lane and a blocked car
\* after it in the list has stayed, its only free lane taken by the first
C18_Witness ==
    /\ state = "RACE" /\ pc = "draft" /\ ~control_locked
    /\ \E i, j \in 1..Len(ai_cars) :
          /\ i < j
          /\ ai_cars[i].lane_change_timer = AI_LANE_COOLDOWN
          /\ ai_cars[j].lane_change_timer = 0
          /\ \E k \in 1..Len(ai_cars) :
                /\ ai_cars[k].lane_index = ai_cars[j].lane_index
                /\ 0 < ai_cars[k].distance - ai_cars[j].distance
                /\ ai_cars[k].distance - ai_cars[j].distance < 160 * DU
          /\ Abs(ai_cars[i].lane_index - ai_cars[j].lane_index) = 1
          /\ Abs(ai_cars[i].distance - ai_cars[j].distance) < 170 * DU
          /\ \A k \in 1..Len(ai_cars) :
                k # i /\ Abs(ai_cars[k].lane_index - ai_cars[j].lane_index) = 1
                    => Abs(ai_cars[k].distance - ai_cars[j].distance) >= 170 * DU

\* ------------------------------------------------- C19: the soft rail
\* apply_drafting is over and draft_log holds the pairs of its walk
drafted == state = "RACE" /\ pc = "collide" /\ failure = ""

\* C19: after apply_drafting, for every pair of the walk whose gap, as the
\* walk found it, is in (0, 28), the trailing car's distance is at most the
\* lead car's distance - 14, both as the pass leaves them, and the walk
\* never moves a lead car; a pair with gap <= 0 is left as it was found.
C19_SoftRail ==
    drafted =>
        \A e \in draft_entries :
            /\ e.lead_out.distance = e.lead.distance
            /\ (0 < entry_gap(e) /\ entry_gap(e) < 28 * DU) =>
                  car_of(ai_cars, e.trail.id).distance
                      <= car_of(ai_cars, e.lead.id).distance - 14 * DU
            /\ entry_gap(e) <= 0 => e.lead_out = e.lead /\ e.trail_out = e.trail

\* the walk has pulled a trailing car back onto the rail, and the pair
\* behind it, less than 28 apart before the pass, was skipped for its gap
C19_Witness ==
    /\ drafted
    /\ \E e1 \in draft_entries, e2 \in draft_entries :
          /\ 0 < entry_gap(e1) /\ entry_gap(e1) < 28 * DU
          /\ e1.trail_out.distance < e1.trail.distance
          /\ e2.lead.id = e1.trail.id
          /\ entry_gap(e2) <= 0
          /\ e1.trail.distance - e2.trail.distance > 0
          /\ e1.trail.distance - e2.trail.distance < 28 * DU

\* ------------------------------------------------ C20: the bump branch
hit_entries == {hit_log[k] : k \in 1..Len(hit_log)}

\* behind.speed - ahead.speed of a pair, as the walk found it
entry_rel(e) == e.trail.speed - e.lead.speed

\* the pair took the bump branch of lines 999-1001
bumped(e) ==
    /\ e.lead.state = "RUNNING" /\ e.trail.state = "RUNNING"
    /\ entry_gap(e) <= COLLISION_GAP * DU
    /\ entry_rel(e) <= CRASH_REL_UNITS

\* what the pair gave the car ahead and took from the car behind
entry_gain(e) == e.lead_out.speed - e.lead.speed
entry_loss(e) == e.trail.speed - e.trail_out.speed

\* C20: in the bump branch of resolve_collisions the car ahead gains more
\* speed than the car behind loses when the pair closes (at least as much
\* at any closing rate, strictly more from 0.09 on, where the amounts are
\* above a hundredth), no speed changes when the closing rate is 0 or
\* less, the car behind keeps a speed of 0 or more, and both cars stay
\* RUNNING.
C20_BumpPushes ==
    \A e \in hit_entries :
        bumped(e) =>
            /\ entry_rel(e) > 0 => entry_gain(e) >= entry_loss(e) /\ entry_loss(e) >= 0
            /\ entry_rel(e) >= 9 => entry_gain(e) > entry_loss(e)
            /\ entry_rel(e) <= 0 => entry_gain(e) = 0 /\ entry_loss(e) = 0
            /\ e.trail_out.speed >= 0
            /\ e.lead_out.state = "RUNNING" /\ e.trail_out.state = "RUNNING"

\* the walk has bumped a closing pair, speed passing from the car behind to
\* the car ahead, and a pair in contact that was not closing
C20_Witness ==
    /\ state = "RACE" /\ pc = "present"
    /\ \E e \in hit_entries :
          /\ bumped(e) /\ entry_rel(e) = 3000
          /\ entry_gain(e) > entry_loss(e) /\ entry_loss(e) > 0
    /\ \E e \in hit_entries :
          /\ bumped(e) /\ entry_rel(e) <= 0
          /\ e.lead_out.speed = e.lead.speed /\ e.trail_out.speed = e.trail.speed

\* --------------------------------- C21: the lane of the controlled car
\* resolve_collisions runs in this step
collide_step == state = "RACE" /\ pc = "collide" /\ pc' = "present" /\ ~control_locked

\* a RUNNING car of the controlled car's lane with 0 < distance <= COLLISION_GAP
touches_player(car) ==
    /\ car.lane_index = player_lane_index /\ car.state = "RUNNING"
    /\ 0 < car.distance /\ car.distance <= 14 * DU

\* no RUNNING car of the controlled car's lane is left with a distance in
\* (0, COLLISION_GAP), and the controlled car loses between 0 and 8 mph for
\* each of the cars in touches
player_lane_safe(touches) ==
    /\ \A i \in 1..Len(ai_cars) :
          ~(/\ ai_cars'[i].lane_index = player_lane_index
            /\ ai_cars'[i].state = "RUNNING"
            /\ 0 < ai_cars'[i].distance /\ ai_cars'[i].distance < 14 * DU)
    /\ player_speed_mph' <= player_speed_mph
    /\ player_speed_mph' >= player_speed_mph - 8 * MU * Cardinality(touches)
    /\ player_speed_mph' >= 0

\* C21 as stated: after resolve_collisions no RUNNING car of the controlled
\* car's lane has 0 < distance < COLLISION_GAP, every car that was RUNNING
\* in that lane with 0 < distance <= COLLISION_GAP when resolve_collisions
\* was entered is at distance COLLISION_GAP, and the controlled car loses
\* at most 8 mph for each such car and gains nothing.
C21_FlooredFromEntry ==
    [][collide_step =>
        LET touches == {i \in 1..Len(ai_cars) : touches_player(ai_cars[i])}
        IN  /\ Len(ai_cars') = Len(ai_cars)
            /\ player_lane_safe(touches)
            /\ \A i \in touches : ai_cars'[i].distance = 14 * DU]_vars

\* C21 amended: the cars floored are those that are RUNNING in the
\* controlled car's lane with 0 < distance <= COLLISION_GAP after the walk
\* over the pairs of the lanes, which may have crashed a car or moved it
\* back; each of them ends at distance COLLISION_GAP, and every other car is
\* as the walk left it.
C21_PlayerLaneFloor ==
    [][collide_step =>
        LET walked == walked_cars(ai_cars)
            touches == {i \in 1..Len(ai_cars) : touches_player(walked[i])}
        IN  /\ Len(ai_cars') = Len(ai_cars)
            /\ player_lane_safe(touches)
            /\ \A i \in touches : ai_cars'[i].distance = 14 * DU
            /\ \A i \in (1..Len(ai_cars)) \ touches : ai_cars'[i] = walked[i]]_vars

\* resolve_collisions has floored a car of the controlled car's lane that
\* ran between 0 and COLLISION_GAP
C21_Witness ==
    /\ state = "RACE" /\ pc = "present" /\ ~control_locked
    /\ \E e \in hit_entries : \E car \in {e.lead_out, e.trail_out} :
          /\ car.lane_index = player_lane_index
          /\ car.state = "RUNNING"
          /\ 0 < car.distance /\ car.distance < 14 * DU
          /\ car_of(ai_cars, car.id).distance = 14 * DU

\* ------------------------------------------------ C22: the racing target
\* the frame has set the controlled car's target speed with the controls
\* unlocked
racing_frame == state = "RACE" /\ pc = "update" /\ ~control_locked

\* C22: in every frame with the controls unlocked the controlled car's
\* target speed is between BRAKE_MPH (120) and CONTROLLED_BASE_MPH + 40
\* (240), and it is BRAKE_MPH while the brake key is held, whatever the
\* draft bonus, the contact boost and the turn penalty are.
C22_TargetRange ==
    racing_frame =>
        /\ 120 * MU <= target_mph /\ target_mph <= 240 * MU
        /\ "DOWN" \in keys => target_mph = 120 * MU

\* a frame brakes with a draft bonus on the books, and the target is 120
C22_Witness ==
    /\ racing_frame /\ "DOWN" \in keys /\ draft_bonus > 0
    /\ target_mph = BRAKE_MPH * MU /\ player_speed_mph > target_mph

\* --------------------------------------------- C23: the rolling floor
\* the update pass runs in this step
update_step == state = "RACE" /\ pc = "update" /\ pc' = "lanes" /\ failure' = ""

\* where the Car.update call that left the car as after has moved a car
\* from distance
moved_to(distance, after) ==
    in_range(distance - (after.speed - sim_speed) * delta)

\* C23: with the controls locked a RUNNING car leaves its Car.update call
\* at the later of the distance it has moved to and -48, and the call
\* does not signal an exit; with the controls unlocked, and for a
\* CRASHING or DISABLED car, the car is left where it has moved to.
C23_RollingFloor ==
    [][update_step =>
        \A i \in 1..Len(ai_cars) :
            LET after == upd_log'[i].car
                moved == moved_to(ai_cars[i].distance, after)
            IN  /\ upd_log'[i].id = ai_cars[i].id
                /\ IF control_locked /\ ai_cars[i].state = "RUNNING"
                   THEN /\ after.distance = Max(moved, -(48 * DU))
                        /\ after.distance >= -(48 * DU)
                        /\ ~upd_log'[i].exit
                   ELSE after.distance = moved]_vars

\* the second locked frame of a race has left one car at -48 and another
\* car ahead of it
C23_Witness ==
    /\ state = "RACE" /\ pc = "lanes" /\ control_locked /\ frames = 1
    /\ Len(upd_log) = Len(ai_cars)
    /\ \E k \in 1..Len(upd_log) :
          /\ upd_log[k].was = "RUNNING"
          /\ upd_log[k].car.distance = -(48 * DU)
    /\ \E k \in 1..Len(upd_log) : upd_log[k].car.distance > 0

\* ------------------------------------------- C24: build_two_wide_pack
\* a quick race has just been started: the field is the two-wide grid
grid_built == state = "RACE" /\ frames = 0 /\ pc = "input" /\ active_preset \in GridPresets

\* the cell of the controlled car
grid_player_row == clamp(QUICK_RACE_PLAYER_ROW, 0, active_preset.pack_rows - 1)

\* the row of the grid a car stands in: rows are 16 apart and the jitter
\* is less than half of that
grid_row(car) ==
    grid_player_row + (car.distance + 8 * DU) \div (16 * DU)

\* the cells of the grid but the cell of the controlled car
grid_free == 2 * active_preset.pack_rows - 1

\* the number of cars asked for
grid_target ==
    (IF active_preset.field_size # 0 THEN active_preset.field_size
     ELSE 2 * active_preset.pack_rows) - 1

\* C24: the cars of build_two_wide_pack stand on the first two formation
\* lanes, in rows of the grid, none of them in the cell of the controlled
\* car and no two in one cell; the list goes row by row; there are
\* target_ai = field_size - 1 cars (rows x lanes - 1 without a field
\* size) when the grid has that many free cells, and one car on every free
\* cell otherwise.
C24_TwoWideGrid ==
    grid_built =>
        /\ \A k \in 1..Len(ai_cars) :
              /\ ai_cars[k].lane_index \in {0, 1}
              /\ grid_row(ai_cars[k]) \in 0..(active_preset.pack_rows - 1)
              /\ ~(/\ grid_row(ai_cars[k]) = grid_player_row
                    /\ ai_cars[k].lane_index = player_lane_target)
        /\ \A j \in 1..Len(ai_cars), k \in 1..Len(ai_cars) :
              j < k =>
                  /\ grid_row(ai_cars[j]) <= grid_row(ai_cars[k])
                  /\ grid_row(ai_cars[j]) = grid_row(ai_cars[k])
                        => ai_cars[j].lane_index < ai_cars[k].lane_index
        /\ Len(ai_cars) = Min(grid_target, grid_free)

\* the full grid of the quick race: 42 cars on 22 rows, the last cell empty
C24_Witness ==
    /\ grid_built
    /\ active_preset = full_quick_race_preset
    /\ Len(ai_cars) = DEFAULT_FIELD_SIZE - 1
    /\ Cardinality({k \in 1..Len(ai_cars) : grid_row(ai_cars[k]) = grid_player_row}) = 1
    /\ \E k \in 1..Len(ai_cars) : grid_row(ai_cars[k]) = QUICK_RACE_PACK_ROWS - 1

\* --------------------------------------------------- C25: spawn_pack
\* a race on a preset of the table has just been started: the field is the
\* pack of spawn_pack
pack_spawned ==
    state = "RACE" /\ frames = 0 /\ pc = "input" /\ active_preset \in SpawnPresets

\* the number of cars of the field this driver has
cars_of(driver) == Cardinality({k \in 1..Len(ai_cars) : ai_cars[k].driver = driver})

roster_drivers == {driver_library[k] : k \in 1..Len(driver_library)}

\* the drivers come round evenly
drivers_even ==
    /\ \A k \in 1..Len(ai_cars) : ai_cars[k].driver \in roster_drivers
    /\ \A d1 \in roster_drivers, d2 \in roster_drivers : cars_of(d1) <= cars_of(d2) + 1

\* the lanes the pack may stand on
pack_columns ==
    IF active_preset.formation_lanes # <<>> THEN Len(active_preset.formation_lanes)
    ELSE active_preset.lane_count

next_row(j) == j + pack_columns

\* C26: in a pack of spawn_pack, for every preset of the table and every
\* jitter, the car of the next row of a lane has the greater distance and
\* is more than COLLISION_GAP (14) away.
C26_RowsApart ==
    pack_spawned =>
        \A j \in 1..Len(ai_cars) :
            next_row(j) <= Len(ai_cars) =>
                /\ ai_cars[next_row(j)].lane_index = ai_cars[j].lane_index
                /\ ai_cars[next_row(j)].distance > ai_cars[j].distance
                /\ ai_cars[next_row(j)].distance - ai_cars[j].distance > 14 * DU

\* the pack of the 23-row preset in which the jitter has pushed a row on
\* by more than 2 and the next row back by 3
C26_Witness ==
    /\ pack_spawned /\ active_preset = FULL_TRACK_PRESETS[1]
    /\ \E j \in 1..Len(ai_cars) :
          /\ next_row(j) <= Len(ai_cars)
          /\ ai_cars[next_row(j)].distance - ai_cars[j].distance
                < spawn_row_spacing(active_preset) - 5 * DU

\* -------------------------------------- C27: the field of a rolling start
\* a step of the frame loop in a frame that has found the controls locked
locked_step == state = "RACE" /\ pc # "input" /\ control_locked /\ failure' = ""

\* C27: in a frame with control_locked true every car of the field is
\* RUNNING and stays RUNNING, keeps its lane_index, and keeps its place in
\* ai_cars: none is removed or recycled.
C27_RollingFieldKept ==
    [][locked_step =>
        /\ Len(ai_cars') = Len(ai_cars)
        /\ \A k \in 1..Len(ai_cars) :
              /\ ai_cars'[k].id = ai_cars[k].id
              /\ ai_cars'[k].lane_index = ai_cars[k].lane_index
              /\ ai_cars[k].state = "RUNNING"
              /\ ai_cars'[k].state = "RUNNING"]_vars

\* the second locked frame is over: a car stands behind another of its
\* lane, less than 160 away, the place where the lane pass would move it,
\* and a car stands at the floor of -48
C27_Witness ==
    /\ state = "RACE" /\ pc = "present" /\ control_locked /\ frames = 1
    /\ \E i \in 1..Len(ai_cars), k \in 1..Len(ai_cars) :
          /\ ai_cars[i].lane_index = ai_cars[k].lane_index
          /\ 0 < ai_cars[k].distance - ai_cars[i].distance
          /\ ai_cars[k].distance - ai_cars[i].distance < 160 * DU
          /\ ai_cars[i].lane_change_timer <= 0
    /\ \E k \in 1..Len(ai_cars) : ai_cars[k].distance = -(48 * DU)

\* ---------------------------------- C28: the speed of the controlled car
\* the speed the frame's sim_speed was taken from
speed_of(sim) == (sim * 10 * MU) \div (SPEED_SCALE_X10 * SU)

\* C28: in every state of a race 0 <= player_speed_mph <=
\* CONTROLLED_BASE_MPH + 40 (240), whatever the rolling ramp, the racing
\* target, the brake and the penalties of resolve_collisions have done.
C28_SpeedInRange ==
    state = "RACE" =>
        /\ player_speed_mph >= 0
        /\ player_speed_mph <= (CONTROLLED_BASE_MPH + 40) * MU

\* a frame with the brake held in which resolve_collisions has taken
\* speed off the controlled car
C28_Witness ==
    /\ state = "RACE" /\ pc = "present" /\ ~control_locked
    /\ "DOWN" \in keys
    /\ player_speed_mph > 0
    /\ player_speed_mph < speed_of(sim_speed)

\* ------------------------------------------- C29: the length of a crash
\* the cars of the field that are spinning
crashing == {k \in 1..Len(ai_cars) : ai_cars[k].state = "CRASHING"}

in_field(cars, id) == \E k \in 1..Len(cars) : cars[k].id = id

\* the timer of a spinning car has not been set more than once: it holds
\* what is left of the 1.2 s
crash_running == \A k \in crashing :
    ai_cars[k].crash_timer > 0 /\ ai_cars[k].crash_timer <= CRASH_TIME

\* what a step of a race does to a spinning car: Car.update takes delta
\* off its timer and leaves it DISABLED when nothing is left, and no other
\* step, resolve_collisions included, touches its timer or its state
crash_step ==
    (state = "RACE" /\ races' = races /\ failure' = "") =>
        \A k \in crashing :
            LET id == ai_cars[k].id
                timer == ai_cars[k].crash_timer
            IN  IF pc = "update"
                THEN in_field(ai_cars', id) =>
                        LET after == car_of(ai_cars', id)
                        IN  /\ after.crash_timer = timer - delta
                            /\ delta > 0 => after.crash_timer < timer
                            /\ after.state = IF after.crash_timer <= 0
                                             THEN "DISABLED" ELSE "CRASHING"
                ELSE /\ in_field(ai_cars', id)
                     /\ car_of(ai_cars', id).crash_timer = timer
                     /\ car_of(ai_cars', id).state = "CRASHING"

\* C29: a spinning car's crash_timer is not set again by a later
\* collision, every frame takes its delta off it, and the car is DISABLED
\* as soon as nothing is left: a car is CRASHING for at most 1.2 s of
\* frame time.
C29_CrashRunsOut == []crash_running /\ [][crash_step]_vars

\* resolve_collisions has run on a field where a car that has been
\* spinning for some time is within COLLISION_GAP of a RUNNING car of its
\* lane, and has left its timer alone
C29_Witness ==
    /\ state = "RACE" /\ pc = "present" /\ ~control_locked
    /\ \E i \in crashing, k \in 1..Len(ai_cars) :
          /\ ai_cars[i].crash_timer < CRASH_TIME
          /\ ai_cars[k].state = "RUNNING"
          /\ ai_cars[k].lane_index = ai_cars[i].lane_index
          /\ Abs(ai_cars[k].distance - ai_cars[i].distance) <= COLLISION_GAP * DU

\* ------------------------------- C30: lane changes and the controlled car
\* a pass of attempt_lane_changes
lane_step == state = "RACE" /\ pc = "lanes" /\ pc' = "draft" /\ ~control_locked

\* C30: attempt_lane_changes moves no car into the lane of the controlled
\* car while the car is within LANE_SAFETY_DISTANCE (120) of distance 0,
\* the place of the controlled car.
C30_KeepsClearOfPlayer ==
    [][lane_step =>
        \A i \in 1..Len(ai_cars) :
            (/\ ai_cars'[i].lane_index # ai_cars[i].lane_index
             /\ ai_cars'[i].lane_index = player_lane_index)
                => Abs(ai_cars[i].distance) >= LANE_SAFETY_DISTANCE * DU]_vars

====
